---------------------------- MODULE Spec2Model ----------------------------
(***************************************************************************)
(* Subscription reconciliation of strautomator/functions                   *)
(* (src/src/subscriptions.ts, second definition set, lines 227-487) as a   *)
(* state machine: the subscription store, the user store, the two          *)
(* providers, and the four routines checkMissing, checkGitHub, checkPayPal *)
(* and checkNonActive run one after the other, one item per step.          *)
(***************************************************************************)
EXTENDS Integers, Sequences, FiniteSets, TLC

(***************************************************************************)
(* Time.  A timestamp is a number of ticks; a day has TicksPerDay ticks, so*)
(* that two timestamps of one day can differ.  The calendar has 365-day    *)
(* years; dayjs's clamping month arithmetic is kept.                       *)
(***************************************************************************)
TicksPerDay == 2

MaxCycles == 2

Days(n) == n * TicksPerDay

Weeks(n) == Days(7 * n)

MonthLength == <<31, 28, 31, 30, 31, 30, 31, 31, 30, 31, 30, 31>>

RECURSIVE DaysBeforeMonth(_)
DaysBeforeMonth(m) == IF m = 0 THEN 0 ELSE DaysBeforeMonth(m - 1) + MonthLength[m]

MonthOfDay(doy) ==
    CHOOSE m \in 0..11 : DaysBeforeMonth(m) <= doy /\ doy < DaysBeforeMonth(m) + MonthLength[m + 1]

Min(a, b) == IF a < b THEN a ELSE b

\* dayjs .add(n, "months"): same day of month, clamped to the target month's length.
AddMonths(t, n) ==
    LET day == t \div TicksPerDay
        part == t % TicksPerDay
        doy == day % 365
        m == MonthOfDay(doy)
        dom == doy - DaysBeforeMonth(m)
        total == (day \div 365) * 12 + m + n
        m2 == total % 12
        dom2 == Min(dom, MonthLength[m2 + 1] - 1)
    IN  Days((total \div 12) * 365 + DaysBeforeMonth(m2) + dom2) + part

\* dayjs .diff(other, unit): the difference in units, truncated towards zero.
Diff(a, b, unit) == IF a >= b THEN (a - b) \div unit ELSE 0 - ((b - a) \div unit)

\* dayjs .format("l"): the calendar date, without the time of day.
FormatL(t) == t \div TicksPerDay

\* The instant of the run (dayjs.utc()), the same in every routine of a behaviour.
Now == Days(2 * 365 + 305) + 1

NoDate == 0 - 1

(***************************************************************************)
(* Program constants.                                                      *)
(***************************************************************************)
GraceWeeks == 4

GraceMonths == 11

RecentWeeks == 4

RecentDays == 30

IdleDays == 60

(***************************************************************************)
(* Entities.                                                               *)
(***************************************************************************)
UserIds == {"u1", "u2"}

\* A user id that resolves to no record.
GoneUser == "u0"

SubIds == {"s1", "s2"}

NoSub == "none"

Statuses == {"ACTIVE", "PENDING", "SUSPENDED", "CANCELLED", "EXPIRED"}

Terminal == {"SUSPENDED", "CANCELLED", "EXPIRED"}

Sources == {"paypal", "github", "manual"}

Frequencies == {"monthly", "yearly", "lifetime"}

NoPayment == [date |-> NoDate, amount |-> 0, currency |-> "none"]

AbsentSub ==
    [exists |-> FALSE, userId |-> GoneUser, source |-> "manual", status |-> "EXPIRED",
     frequency |-> "monthly", dateCreated |-> NoDate, dateUpdated |-> NoDate,
     dateExpiry |-> NoDate, lastPayment |-> NoPayment, price |-> 0, currency |-> "none",
     pendingUpdate |-> FALSE, dangling |-> FALSE]

NullUser == [found |-> FALSE, id |-> GoneUser, isPro |-> FALSE, subscriptionId |-> NoSub]

VARIABLES
    subscriptions,  \* SubscriptionStore: SubIds -> record (AbsentSub when there is none)
    users,          \* UserStore: UserIds -> [isPro, subscriptionId]
    paypalLive,     \* BillingProviderClient: SubIds -> [status, lastPayment, dateUpdated]
    githubLive,     \* SponsorshipProviderClient: the ids of the active sponsors
    routine,        \* the routine that is running, or "idle"
    phase,          \* its position: "dangling", "loop" or "none"
    work,           \* the in-memory working set (subs): SubIds -> record
    todo,           \* the ids of the working set not yet iterated
    proUsers,       \* checkMissing's list of PRO users: UserIds -> user object
    todoUsers,      \* the users of that list not yet iterated
    iterated,       \* the ids of the working set already iterated, in the shuffled order
    calls,          \* the external calls of the current run, in order
    nextUp,         \* index in Order of the routine to run next
    cyclesDone,     \* complete reconciliation cycles so far
    cycleWrites,    \* store writes since the current cycle started
    start,          \* the stores as they were in the initial state
    runStart,       \* the stores as they were when the current run started
    killed,         \* the run that was stopped mid-way, if any: its routine and its runStart
    beta,           \* settings.beta.enabled
    embedded,       \* users.ts: the subscription object embedded in each user (user.subscription)
    idleUsers,      \* users.ts cleanupIdle: the users returned by getIdle, not yet iterated
    removed,        \* the users deleted by core.users.delete
    upstream,       \* the upstream event that rewrote a subscription during a run, if any
    sweep,          \* a bounded-parallel batch sweep: its list, its batch in flight, its outcome
    tasks,          \* a scheduled wrapper of index.js: the routines it has invoked so far
    appState,       \* strava.ts apiCheckStatus: the stored incident and the status feed
    thrown          \* the exceptions raised by the collaborators so far, in order

vars == <<subscriptions, users, paypalLive, githubLive, routine, phase, work, todo,
          proUsers, todoUsers, iterated, calls, nextUp, cyclesDone, cycleWrites, start, runStart,
          killed, beta, embedded, idleUsers, removed, upstream, sweep, tasks, appState, thrown>>

Order == <<"checkMissing", "checkGitHub", "checkPayPal", "checkNonActive">>

(***************************************************************************)
(* The collaborators of strautomator-core, at their interface.  A world w  *)
(* is [subscriptions, users, calls]: the two stores and the call log.      *)
(***************************************************************************)
World == [subscriptions |-> subscriptions, users |-> users, calls |-> calls]

Call(op, id, arg, by) == [op |-> op, id |-> id, arg |-> arg, by |-> by]

WriteOps == {"subscriptions.update", "subscriptions.delete", "users.update", "users.switchToFree"}

WriteCount(cs) == Cardinality({i \in 1..Len(cs) : cs[i].op \in WriteOps})

\* core.users.getById
UsersGetById(w, uid) ==
    IF uid \in UserIds
    THEN [found |-> TRUE, id |-> uid, isPro |-> w.users[uid].isPro,
          subscriptionId |-> w.users[uid].subscriptionId]
    ELSE NullUser

\* core.users.update with {isPro: true, subscriptionId}
UsersSetPro(w, uid, sid, by) ==
    [w EXCEPT !.users[uid] = [isPro |-> TRUE, subscriptionId |-> sid],
              !.calls = Append(@, Call("users.update", uid, sid, by))]

\* core.users.update with {subscriptionId: FieldValue.delete()}
UsersClearSubscriptionId(w, uid, by) ==
    [w EXCEPT !.users[uid].subscriptionId = NoSub,
              !.calls = Append(@, Call("users.update", uid, NoSub, by))]

\* core.users.switchToFree(user, subscription?): user is the object the caller holds.
UsersSwitchToFree(w, user, sid, by) ==
    [w EXCEPT !.users[user.id] =
                  [isPro |-> FALSE,
                   subscriptionId |-> IF sid # NoSub /\ user.subscriptionId = sid
                                      THEN NoSub ELSE w.users[user.id].subscriptionId],
              !.calls = Append(@, Call("users.switchToFree", user.id, sid, by))]

\* core.subscriptions.delete
SubscriptionsDelete(w, sid, by) ==
    [w EXCEPT !.subscriptions[sid] = AbsentSub,
              !.calls = Append(@, Call("subscriptions.delete", sid, NoSub, by))]

\* Variant: the object is persisted as it is passed, mark included.
SubscriptionsUpdateAsPassed(w, sid, sub, by) ==
    [w EXCEPT !.subscriptions[sid] =
                  [sub EXCEPT !.exists = TRUE, !.dangling = w.subscriptions[sid].dangling],
              !.calls = Append(@, Call("subscriptions.update", sid, NoSub, by))]

\* core.subscriptions.update: merge-patch persist; the transient mark is not stored.
SubscriptionsUpdate(w, sid, sub, by) ==
    [w EXCEPT !.subscriptions[sid] =
                  [sub EXCEPT !.exists = TRUE, !.pendingUpdate = FALSE,
                              !.dangling = w.subscriptions[sid].dangling],
              !.calls = Append(@, Call("subscriptions.update", sid, NoSub, by))]

\* core.subscriptions.getAll(source), getNonActive(), getDangling(): the ids returned.
SubscriptionsGetAll(store, source) ==
    {s \in SubIds : store[s].exists /\ store[s].source = source}

SubscriptionsGetNonActive(store) ==
    {s \in SubIds : store[s].exists /\ store[s].status # "ACTIVE"}

SubscriptionsGetDangling(store) ==
    {s \in SubIds : store[s].exists /\ store[s].dangling}


\* Variant: a subscription whose user does not resolve is never deleted (as in
\* subscriptions.ts 27-35).
ValidateSubscriptionNoDelete(sub, sid, user, w) ==
    IF ~user.found
    THEN IF sub.status # "EXPIRED"
         THEN [sub |-> [sub EXCEPT !.status = "EXPIRED", !.dateExpiry = Now,
                                   !.pendingUpdate = TRUE],
               w |-> w]
         ELSE [sub |-> sub, w |-> w]
    ELSE IF sub.status \notin Terminal /\ sub.dateExpiry # NoDate /\ Now > sub.dateExpiry
         THEN [sub |-> [sub EXCEPT !.status = "EXPIRED", !.pendingUpdate = TRUE],
               w |-> IF user.isPro THEN UsersSwitchToFree(w, user, sid, "validate") ELSE w]
         ELSE IF sub.status = "ACTIVE" /\ ~user.isPro
              THEN [sub |-> sub, w |-> UsersSetPro(w, user.id, sid, "validate")]
              ELSE [sub |-> sub, w |-> w]

\* Variant: the expiry rule switches the user to free whatever isPro says.
ValidateSubscriptionDowngradingAll(sub, sid, user, w) ==
    IF ~user.found
    THEN IF sub.dateUpdated + Days(IdleDays) < Now
         THEN [sub |-> sub, w |-> SubscriptionsDelete(w, sid, "validate")]
         ELSE IF sub.status # "EXPIRED"
              THEN [sub |-> [sub EXCEPT !.status = "EXPIRED", !.dateExpiry = Now,
                                        !.pendingUpdate = TRUE],
                    w |-> w]
              ELSE [sub |-> sub, w |-> w]
    ELSE IF sub.status \notin Terminal /\ sub.dateExpiry # NoDate /\ Now > sub.dateExpiry
         THEN [sub |-> [sub EXCEPT !.status = "EXPIRED", !.pendingUpdate = TRUE],
               w |-> UsersSwitchToFree(w, user, sid, "validate")]
         ELSE IF sub.status = "ACTIVE" /\ ~user.isPro
              THEN [sub |-> sub, w |-> UsersSetPro(w, user.id, sid, "validate")]
              ELSE [sub |-> sub, w |-> w]

\* Variant: a subscription that matches no rule is marked pending all the same.
ValidateSubscriptionMarkingAll(sub, sid, user, w) ==
    IF ~user.found
    THEN IF sub.dateUpdated + Days(IdleDays) < Now
         THEN [sub |-> sub, w |-> SubscriptionsDelete(w, sid, "validate")]
         ELSE IF sub.status # "EXPIRED"
              THEN [sub |-> [sub EXCEPT !.status = "EXPIRED", !.dateExpiry = Now,
                                        !.pendingUpdate = TRUE],
                    w |-> w]
              ELSE [sub |-> sub, w |-> w]
    ELSE IF sub.status \notin Terminal /\ sub.dateExpiry # NoDate /\ Now > sub.dateExpiry
         THEN [sub |-> [sub EXCEPT !.status = "EXPIRED", !.pendingUpdate = TRUE],
               w |-> IF user.isPro THEN UsersSwitchToFree(w, user, sid, "validate") ELSE w]
         ELSE IF sub.status = "ACTIVE" /\ ~user.isPro
              THEN [sub |-> sub, w |-> UsersSetPro(w, user.id, sid, "validate")]
              ELSE [sub |-> [sub EXCEPT !.pendingUpdate = TRUE], w |-> w]

\* Variant: the rules are not exclusive, the drift rule is tested on the subscription
\* as it was passed even when the expiry rule has fired.
ValidateSubscriptionEveryRule(sub, sid, user, w) ==
    IF ~user.found
    THEN IF sub.dateUpdated + Days(IdleDays) < Now
         THEN [sub |-> sub, w |-> SubscriptionsDelete(w, sid, "validate")]
         ELSE IF sub.status # "EXPIRED"
              THEN [sub |-> [sub EXCEPT !.status = "EXPIRED", !.dateExpiry = Now,
                                        !.pendingUpdate = TRUE],
                    w |-> w]
              ELSE [sub |-> sub, w |-> w]
    ELSE LET r == IF sub.status \notin Terminal /\ sub.dateExpiry # NoDate /\ Now > sub.dateExpiry
                  THEN [sub |-> [sub EXCEPT !.status = "EXPIRED", !.pendingUpdate = TRUE],
                        w |-> IF user.isPro THEN UsersSwitchToFree(w, user, sid, "validate")
                              ELSE w]
                  ELSE [sub |-> sub, w |-> w]
         IN  IF sub.status = "ACTIVE" /\ ~user.isPro
             THEN [sub |-> r.sub, w |-> UsersSetPro(r.w, user.id, sid, "validate")]
             ELSE r

\* Variant: the drift rule only logs an alert (as in subscriptions.ts 48-51).
ValidateSubscriptionAlertOnly(sub, sid, user, w) ==
    IF ~user.found
    THEN IF sub.dateUpdated + Days(IdleDays) < Now
         THEN [sub |-> sub, w |-> SubscriptionsDelete(w, sid, "validate")]
         ELSE IF sub.status # "EXPIRED"
              THEN [sub |-> [sub EXCEPT !.status = "EXPIRED", !.dateExpiry = Now,
                                        !.pendingUpdate = TRUE],
                    w |-> w]
              ELSE [sub |-> sub, w |-> w]
    ELSE IF sub.status \notin Terminal /\ sub.dateExpiry # NoDate /\ Now > sub.dateExpiry
         THEN [sub |-> [sub EXCEPT !.status = "EXPIRED", !.pendingUpdate = TRUE],
               w |-> IF user.isPro THEN UsersSwitchToFree(w, user, sid, "validate") ELSE w]
         ELSE [sub |-> sub, w |-> w]

(***************************************************************************)
(* validateSubscription (subscriptions.ts 250-288).  sub is the in-memory  *)
(* subscription, user the object returned by getById (NullUser when the    *)
(* user does not resolve).  The result is the subscription as mutated and  *)
(* the world after the store calls.                                        *)
(***************************************************************************)
ValidateSubscription(sub, sid, user, w) ==
    IF ~user.found
    THEN IF sub.dateUpdated + Days(IdleDays) < Now
         THEN [sub |-> sub, w |-> SubscriptionsDelete(w, sid, "validate")]
         ELSE IF sub.status # "EXPIRED"
              THEN [sub |-> [sub EXCEPT !.status = "EXPIRED", !.dateExpiry = Now,
                                        !.pendingUpdate = TRUE],
                    w |-> w]
              ELSE [sub |-> sub, w |-> w]
    ELSE IF sub.status \notin Terminal /\ sub.dateExpiry # NoDate /\ Now > sub.dateExpiry
         THEN [sub |-> [sub EXCEPT !.status = "EXPIRED", !.pendingUpdate = TRUE],
               w |-> IF user.isPro THEN UsersSwitchToFree(w, user, sid, "validate") ELSE w]
         ELSE IF sub.status = "ACTIVE" /\ ~user.isPro
              THEN [sub |-> sub, w |-> UsersSetPro(w, user.id, sid, "validate")]
              ELSE [sub |-> sub, w |-> w]

\* Variant: every subscription of the working set is updated, marked or not.
RECURSIVE SaveEverySubscription(_, _, _)
SaveEverySubscription(subs, ids, w) ==
    IF ids = <<>>
    THEN w
    ELSE SaveEverySubscription(subs, Tail(ids),
                               SubscriptionsUpdate(w, Head(ids), subs[Head(ids)], "save"))

(***************************************************************************)
(* saveSubscriptions (subscriptions.ts 294-300): in the order of subs,     *)
(* update every subscription whose pendingUpdate is set.                   *)
(***************************************************************************)
RECURSIVE SaveSubscriptions(_, _, _)
SaveSubscriptions(subs, ids, w) ==
    IF ids = <<>>
    THEN w
    ELSE SaveSubscriptions(subs, Tail(ids),
                           IF subs[Head(ids)].pendingUpdate
                           THEN SubscriptionsUpdate(w, Head(ids), subs[Head(ids)], "save")
                           ELSE w)

\* getActiveSponsors answered without a list (null or undefined, tested at 390).
NoList == {NoSub}

\* Variant: an answer without a list counts as an empty list.
CheckGitHubStepListless(sub, sid, liveData, w) ==
    LET user == UsersGetById(w, sub.userId)
        v == ValidateSubscription(sub, sid, user, w)
    IN  IF ~user.found
        THEN v
        ELSE IF ~user.isPro
        THEN v
        ELSE IF Diff(Now, v.sub.dateCreated, Days(1)) < RecentDays
        THEN v
        ELSE IF sid \notin liveData
        THEN [sub |-> [v.sub EXCEPT !.status = "EXPIRED", !.pendingUpdate = TRUE],
              w |-> UsersSwitchToFree(v.w, user, sid, "sponsors")]
        ELSE v

\* Variant: a subscription found in the sponsor list is set back to ACTIVE.
CheckGitHubStepReviving(sub, sid, liveData, w) ==
    LET user == UsersGetById(w, sub.userId)
        v == ValidateSubscription(sub, sid, user, w)
    IN  IF ~user.found
        THEN v
        ELSE IF ~user.isPro
        THEN v
        ELSE IF Diff(Now, v.sub.dateCreated, Days(1)) < RecentDays
        THEN v
        ELSE IF liveData # NoList /\ sid \notin liveData
        THEN [sub |-> [v.sub EXCEPT !.status = "EXPIRED", !.pendingUpdate = TRUE],
              w |-> UsersSwitchToFree(v.w, user, sid, "sponsors")]
        ELSE IF v.sub.status # "ACTIVE"
        THEN [sub |-> [v.sub EXCEPT !.status = "ACTIVE", !.pendingUpdate = TRUE], w |-> v.w]
        ELSE v

(***************************************************************************)
(* One iteration of checkGitHub's loop (subscriptions.ts 375-399).         *)
(***************************************************************************)
CheckGitHubStep(sub, sid, liveData, w) ==
    LET user == UsersGetById(w, sub.userId)
        v == ValidateSubscription(sub, sid, user, w)
    IN  IF ~user.found                              \* user.isPro throws, caught at 396
        THEN v
        ELSE IF ~user.isPro
        THEN v
        ELSE IF Diff(Now, v.sub.dateCreated, Days(1)) < RecentDays
        THEN v
        ELSE IF liveData # NoList /\ sid \notin liveData
        THEN [sub |-> [v.sub EXCEPT !.status = "EXPIRED", !.pendingUpdate = TRUE],
              w |-> UsersSwitchToFree(v.w, user, sid, "sponsors")]
        ELSE v

(***************************************************************************)
(* One iteration of checkPayPal's loop (subscriptions.ts 418-463).         *)
(***************************************************************************)
\* Variant: the payment dates are compared as instants, not as calendar days.
PayPalPaymentSyncExact(sub, live) ==
    IF live.lastPayment # NoPayment
       /\ (sub.lastPayment = NoPayment \/ sub.lastPayment.date # live.lastPayment.date)
    THEN [sub EXCEPT !.lastPayment = live.lastPayment, !.price = live.lastPayment.amount,
                     !.currency = live.lastPayment.currency, !.pendingUpdate = TRUE]
    ELSE sub

PayPalPaymentSync(sub, live) ==
    IF live.lastPayment # NoPayment
       /\ (sub.lastPayment = NoPayment
           \/ FormatL(sub.lastPayment.date) # FormatL(live.lastPayment.date))
    THEN [sub EXCEPT !.lastPayment = live.lastPayment, !.price = live.lastPayment.amount,
                     !.currency = live.lastPayment.currency, !.pendingUpdate = TRUE]
    ELSE sub

\* Variant: only a terminal live status is adopted (as in subscriptions.ts 187-189).
PayPalStatusSyncTerminalOnly(sub, live) ==
    IF sub.status # live.status /\ live.status \in Terminal
    THEN [sub EXCEPT !.status = live.status, !.pendingUpdate = TRUE]
    ELSE sub

PayPalStatusSync(sub, live) ==
    IF sub.status # live.status
    THEN [sub EXCEPT !.status = live.status, !.pendingUpdate = TRUE]
    ELSE sub

\* liveData.lastPayment?.date || liveData.dateUpdated
PayPalLastPaymentDate(live) ==
    IF live.lastPayment # NoPayment THEN live.lastPayment.date ELSE live.dateUpdated

\* Variant: the limits in days (as in subscriptions.ts 191-192).
PayPalExpiryDateInDays(sub, live) ==
    PayPalLastPaymentDate(live) + Days(IF sub.frequency = "yearly" THEN 365 ELSE 30)

PayPalExpiryDate(sub, live) ==
    IF sub.frequency = "monthly"
    THEN PayPalLastPaymentDate(live) + Weeks(GraceWeeks)
    ELSE AddMonths(PayPalLastPaymentDate(live), GraceMonths)

PayPalUnpaid(sub, live) ==
    sub.status \in Terminal /\ Now > PayPalExpiryDate(sub, live)

\* Variant: no recency test, every subscription of an entitled user is diffed.
CheckPayPalStepNoRecency(sub, sid, live, w) ==
    LET user == UsersGetById(w, sub.userId)
        v == ValidateSubscription(sub, sid, user, w)
    IN  IF ~user.found \/ ~user.isPro
        THEN v
        ELSE LET w1 == [v.w EXCEPT !.calls =
                            Append(@, Call("paypal.getSubscription", sid, NoSub, "paypal"))]
                 s1 == PayPalPaymentSync(v.sub, live)
             IN  IF s1.frequency = "lifetime"
                 THEN [sub |-> s1, w |-> w1]
                 ELSE LET s2 == PayPalStatusSync(s1, live)
                      IN  [sub |-> s2,
                           w |-> IF PayPalUnpaid(s2, live)
                                 THEN UsersSwitchToFree(w1, user, sid, "paypal")
                                 ELSE w1]

CheckPayPalStep(sub, sid, live, w) ==
    LET user == UsersGetById(w, sub.userId)
        v == ValidateSubscription(sub, sid, user, w)
    IN  IF ~user.found \/ ~user.isPro
        THEN v
        ELSE IF v.sub.frequency # "lifetime"
                /\ Diff(Now, v.sub.dateCreated, Weeks(1)) < RecentWeeks
        THEN v
        ELSE LET w1 == [v.w EXCEPT !.calls =
                            Append(@, Call("paypal.getSubscription", sid, NoSub, "paypal"))]
                 s1 == PayPalPaymentSync(v.sub, live)
             IN  IF s1.frequency = "lifetime"
                 THEN [sub |-> s1, w |-> w1]
                 ELSE LET s2 == PayPalStatusSync(s1, live)
                      IN  [sub |-> s2,
                           w |-> IF PayPalUnpaid(s2, live)
                                 THEN UsersSwitchToFree(w1, user, sid, "paypal")
                                 ELSE w1]

(***************************************************************************)
(* One iteration of checkNonActive's two loops (subscriptions.ts 310-323   *)
(* and 327-330) and of checkMissing's loop (347-356).                      *)
(***************************************************************************)
\* Variant: the owner's subscriptionId is cleared whatever it points to.
DanglingStepClearingAny(sub, sid, w) ==
    LET w1 == SubscriptionsDelete(w, sid, "dangling")
        user == UsersGetById(w1, sub.userId)
    IN  IF user.found
        THEN UsersClearSubscriptionId(w1, user.id, "dangling")
        ELSE w1

DanglingStep(sub, sid, w) ==
    LET w1 == SubscriptionsDelete(w, sid, "dangling")
        user == UsersGetById(w1, sub.userId)
    IN  IF user.found /\ user.subscriptionId = sid
        THEN UsersClearSubscriptionId(w1, user.id, "dangling")
        ELSE w1

NonActiveStep(sub, sid, w) ==
    ValidateSubscription(sub, sid, UsersGetById(w, sub.userId), w)

\* Variant: only an empty subscriptionId counts, the store is not asked.
CheckMissingStepIdOnly(user, w) ==
    IF user.subscriptionId = NoSub
    THEN UsersSwitchToFree(w, user, NoSub, "missing")
    ELSE w

CheckMissingStep(user, w) ==
    IF user.subscriptionId = NoSub \/ ~w.subscriptions[user.subscriptionId].exists
    THEN UsersSwitchToFree(w, user, NoSub, "missing")
    ELSE w

(***************************************************************************)
(* The same iterations when one awaited call throws.  at names the call;   *)
(* the result holds the subscription as mutated in memory before the       *)
(* throw, the world after the calls that did complete, and thrown: whether *)
(* the iteration reaches that call at all.                                 *)
(***************************************************************************)
Throw(w, id, at, by) == [w EXCEPT !.calls = Append(@, Call("throw", id, at, by))]

NotReached(sub, w) == [sub |-> sub, w |-> w, thrown |-> FALSE]

\* validateSubscription's one store call throws (258, 274 or 286): the assignments
\* made before it (271-272) stay, the store is not written.
ValidateSubscriptionThrowing(sub, sid, user, w) ==
    LET v == ValidateSubscription(sub, sid, user, w)
    IN  IF v.w.calls = w.calls
        THEN NotReached(sub, w)
        ELSE [sub |-> v.sub, w |-> Throw(w, sid, v.w.calls[Len(v.w.calls)].op, "validate"),
              thrown |-> TRUE]

ItemFaults == {"users.getById", "validate", "paypal.getSubscription", "users.switchToFree"}

CheckGitHubStepThrowing(sub, sid, liveData, w, at) ==
    LET user == UsersGetById(w, sub.userId)
        v == ValidateSubscription(sub, sid, user, w)
    IN  IF at = "users.getById"
        THEN [sub |-> sub, w |-> Throw(w, sid, at, "sponsors"), thrown |-> TRUE]
        ELSE IF at = "validate"
        THEN ValidateSubscriptionThrowing(sub, sid, user, w)
        ELSE IF at = "users.switchToFree" /\ user.found /\ user.isPro
                /\ ~(Diff(Now, v.sub.dateCreated, Days(1)) < RecentDays)
                /\ liveData # NoList /\ sid \notin liveData
        THEN [sub |-> [v.sub EXCEPT !.status = "EXPIRED", !.pendingUpdate = TRUE],
              w |-> Throw(v.w, sid, at, "sponsors"), thrown |-> TRUE]
        ELSE NotReached(sub, w)

CheckPayPalStepThrowing(sub, sid, live, w, at) ==
    LET user == UsersGetById(w, sub.userId)
        v == ValidateSubscription(sub, sid, user, w)
        fetched == user.found /\ user.isPro
                   /\ ~(v.sub.frequency # "lifetime"
                        /\ Diff(Now, v.sub.dateCreated, Weeks(1)) < RecentWeeks)
        w1 == [v.w EXCEPT !.calls =
                   Append(@, Call("paypal.getSubscription", sid, NoSub, "paypal"))]
        s1 == PayPalPaymentSync(v.sub, live)
        s2 == PayPalStatusSync(s1, live)
    IN  IF at = "users.getById"
        THEN [sub |-> sub, w |-> Throw(w, sid, at, "paypal"), thrown |-> TRUE]
        ELSE IF at = "validate"
        THEN ValidateSubscriptionThrowing(sub, sid, user, w)
        ELSE IF at = "paypal.getSubscription" /\ fetched
        THEN [sub |-> v.sub, w |-> Throw(v.w, sid, at, "paypal"), thrown |-> TRUE]
        ELSE IF at = "users.switchToFree" /\ fetched /\ s1.frequency # "lifetime"
                /\ PayPalUnpaid(s2, live)
        THEN [sub |-> s2, w |-> Throw(w1, sid, at, "paypal"), thrown |-> TRUE]
        ELSE NotReached(sub, w)

DanglingFaults == {"subscriptions.delete", "users.getById", "users.update"}

DanglingStepThrowing(sub, sid, w, at) ==
    LET w1 == SubscriptionsDelete(w, sid, "dangling")
        user == UsersGetById(w1, sub.userId)
    IN  IF at = "subscriptions.delete"
        THEN [sub |-> sub, w |-> Throw(w, sid, at, "dangling"), thrown |-> TRUE]
        ELSE IF at = "users.getById"
        THEN [sub |-> sub, w |-> Throw(w1, sid, at, "dangling"), thrown |-> TRUE]
        ELSE IF user.found /\ user.subscriptionId = sid
        THEN [sub |-> sub, w |-> Throw(w1, sid, at, "dangling"), thrown |-> TRUE]
        ELSE NotReached(sub, w)

NonActiveFaults == {"users.getById", "validate"}

NonActiveStepThrowing(sub, sid, w, at) ==
    IF at = "users.getById"
    THEN [sub |-> sub, w |-> Throw(w, sid, at, "nonactive"), thrown |-> TRUE]
    ELSE ValidateSubscriptionThrowing(sub, sid, UsersGetById(w, sub.userId), w)

MissingFaults == {"subscriptions.getById", "users.switchToFree"}

CheckMissingStepThrowing(user, w, at) ==
    IF at = "subscriptions.getById"
    THEN IF user.subscriptionId # NoSub
         THEN [w |-> Throw(w, user.id, at, "missing"), thrown |-> TRUE]
         ELSE [w |-> w, thrown |-> FALSE]
    ELSE IF user.subscriptionId = NoSub \/ ~w.subscriptions[user.subscriptionId].exists
         THEN [w |-> Throw(w, user.id, at, "missing"), thrown |-> TRUE]
         ELSE [w |-> w, thrown |-> FALSE]

\* saveSubscriptions when the update of subscription bad throws: the subscriptions
\* before it are saved, those after it are not.
RECURSIVE SaveSubscriptionsThrowing(_, _, _, _)
SaveSubscriptionsThrowing(subs, ids, w, bad) ==
    IF ids = <<>>
    THEN w
    ELSE IF Head(ids) = bad
    THEN Throw(w, bad, "subscriptions.update", "save")
    ELSE SaveSubscriptionsThrowing(subs, Tail(ids),
                                   IF subs[Head(ids)].pendingUpdate
                                   THEN SubscriptionsUpdate(w, Head(ids), subs[Head(ids)], "save")
                                   ELSE w, bad)


(***************************************************************************)
(* Initial states: the stores and the providers as a run may find them.    *)
(***************************************************************************)
OldDate == Now - Days(400)

RecentDate == Now - Days(10)

\* The last instant that is less than four weeks before now.
JustRecent == Now - Weeks(RecentWeeks) + 1

FreshUpdate == Now - Days(5)

IdleUpdate == Now - Days(IdleDays) - 1

PastExpiry == Now - 1

ElevenMonthsAgo == CHOOSE t \in (Now - Days(366))..Now : AddMonths(t, GraceMonths) = Now

FortyDaysAgo == Now - Days(40)

LocalPayment == [date |-> FortyDaysAgo, amount |-> 10, currency |-> "EUR"]

LivePayment(d) == [date |-> d, amount |-> 12, currency |-> "USD"]

\* The day of the local payment at another time of day, and both grace limits: the
\* last instant within the limit and the first one past it.
LivePaymentDates ==
    {FortyDaysAgo - 1, Now - Weeks(GraceWeeks), Now - Weeks(GraceWeeks) - 1,
     ElevenMonthsAgo, ElevenMonthsAgo - 1}

Sub(userId, source, status, frequency, created, updated, expiry, payment, dangling) ==
    [exists |-> TRUE, userId |-> userId, source |-> source, status |-> status,
     frequency |-> frequency, dateCreated |-> created, dateUpdated |-> updated,
     dateExpiry |-> expiry, lastPayment |-> payment,
     price |-> payment.amount, currency |-> payment.currency,
     pendingUpdate |-> FALSE, dangling |-> dangling]

\* Status and expiry date: a past expiry date only matters on a non-terminal status.
StatusExpiry ==
    ({"ACTIVE", "PENDING"} \X {NoDate, PastExpiry}) \cup ({"SUSPENDED", "EXPIRED"} \X {NoDate})

\* Owner and last update: the last update only matters when the owner does not resolve.
OwnerUpdated ==
    (UserIds \X {FreshUpdate}) \cup ({GoneUser} \X {FreshUpdate, IdleUpdate})

Live(status, payment) ==
    [status |-> status, lastPayment |-> payment, dateUpdated |-> Now - Weeks(GraceWeeks) - 1]

NoLive == Live("EXPIRED", NoPayment)

UserShapes(sids) == [isPro : BOOLEAN, subscriptionId : {NoSub} \cup sids]

\* s1 is a billing-provider subscription of u1 in every shape, with every live answer;
\* s2 is absent or an active sponsorship of u1.
BillingWorlds ==
    { [subscriptions |-> [s \in SubIds |-> IF s = "s1"
                            THEN Sub("u1", "paypal", se[1], f, c, FreshUpdate, se[2], p, FALSE)
                            ELSE s2],
       users |-> [u \in UserIds |-> IF u = "u1" THEN u1
                                    ELSE [isPro |-> FALSE, subscriptionId |-> NoSub]],
       paypalLive |-> [s \in SubIds |-> IF s = "s1" THEN Live(ls, lp) ELSE NoLive],
       githubLive |-> {"s2"}] :
        se \in StatusExpiry, f \in Frequencies, c \in {JustRecent, OldDate},
        p \in {NoPayment, LocalPayment},
        ls \in {"ACTIVE", "SUSPENDED", "CANCELLED", "EXPIRED"},
        lp \in {NoPayment} \cup {LivePayment(d) : d \in LivePaymentDates},
        s2 \in {AbsentSub,
                Sub("u1", "github", "ACTIVE", "monthly", OldDate, FreshUpdate, NoDate,
                    NoPayment, FALSE)},
        u1 \in UserShapes(SubIds) }

\* s2 is a sponsorship or a manual subscription in every shape, of either user or of
\* none; s1 is absent or an active, paid billing-provider subscription of u1.
SponsorWorlds ==
    { [subscriptions |-> [s \in SubIds |-> IF s = "s2"
                            THEN Sub(ou[1], src, se[1], "monthly", c, ou[2], se[2],
                                     NoPayment, d)
                            ELSE s1],
       users |-> [u \in UserIds |-> IF u = "u1" THEN u1 ELSE u2],
       paypalLive |-> [s \in SubIds |-> IF s = "s1" THEN Live("ACTIVE", LocalPayment)
                                        ELSE NoLive],
       githubLive |-> gl] :
        ou \in OwnerUpdated, src \in {"github", "manual"}, se \in StatusExpiry,
        c \in {RecentDate, OldDate}, d \in BOOLEAN, gl \in {{}, {"s2"}},
        s1 \in {AbsentSub,
                Sub("u1", "paypal", "ACTIVE", "monthly", OldDate, FreshUpdate, NoDate,
                    LocalPayment, FALSE)},
        u1 \in UserShapes(SubIds), u2 \in UserShapes({"s2"}) }

\* s1 is a billing-provider subscription whose user does not resolve, last updated
\* recently, exactly at the idle threshold, or before it.
OrphanWorlds ==
    { [subscriptions |-> [s \in SubIds |-> IF s = "s1"
                            THEN Sub(GoneUser, "paypal", se[1], f, OldDate, up, se[2],
                                     LocalPayment, FALSE)
                            ELSE AbsentSub],
       users |-> [u \in UserIds |-> IF u = "u1" THEN u1
                                    ELSE [isPro |-> FALSE, subscriptionId |-> NoSub]],
       paypalLive |-> [s \in SubIds |-> IF s = "s1" THEN Live("ACTIVE", LocalPayment)
                                        ELSE NoLive],
       githubLive |-> {}] :
        se \in StatusExpiry, f \in {"monthly", "lifetime"},
        up \in {FreshUpdate, Now - Days(IdleDays), IdleUpdate},
        u1 \in UserShapes({"s1"}) }

InitialWorlds == BillingWorlds \cup SponsorWorlds \cup OrphanWorlds

Stores == [subscriptions |-> subscriptions, users |-> users]

NoWork == [s \in SubIds |-> AbsentSub]

NotKilled == [name |-> "none", stores |-> [subscriptions |-> NoWork, users |-> <<>>]]

NoEvent == [sid |-> NoSub, status |-> "none", name |-> "none"]

\* No sweep, no scheduled wrapper and no status check is under way.
NoSweep == [kind |-> "none"]

NoTasks == [name |-> "none"]

NoAppState == [incident |-> "none"]

OnlyReconciliation == sweep = NoSweep /\ tasks = NoTasks /\ appState = NoAppState

NoEmbedded == [source |-> "none", id |-> NoSub, dateExpiry |-> NoDate]

\* The stores and the providers are those of world i; nothing runs yet.
Before(i) ==
    /\ subscriptions = i.subscriptions
    /\ users = i.users
    /\ paypalLive = i.paypalLive
    /\ githubLive = i.githubLive
    /\ routine = "idle"
    /\ phase = "none"
    /\ work = NoWork
    /\ todo = {}
    /\ proUsers = [u \in UserIds |-> NullUser]
    /\ todoUsers = {}
    /\ iterated = <<>>
    /\ calls = <<>>
    /\ cycleWrites = 0
    /\ start = Stores
    /\ runStart = Stores
    /\ killed = NotKilled
    /\ removed = {}
    /\ upstream = NoEvent
    /\ thrown = <<>>

Init ==
    /\ \E i \in InitialWorlds : Before(i)
    /\ nextUp = 1
    /\ cyclesDone = 0
    /\ beta = FALSE
    /\ embedded = [u \in UserIds |-> NoEmbedded]
    /\ idleUsers = {}
    /\ OnlyReconciliation

(***************************************************************************)
(* The routines, in the order of one reconciliation cycle.                 *)
(***************************************************************************)
Environment ==
    UNCHANGED <<paypalLive, githubLive, start, beta, embedded, idleUsers, removed, upstream,
                sweep, tasks, appState>>

\* The calls this step adds to the log (the whole log when a run starts).
NewCalls ==
    IF Len(calls') >= Len(calls) /\ SubSeq(calls', 1, Len(calls)) = calls
    THEN SubSeq(calls', Len(calls) + 1, Len(calls'))
    ELSE calls'

\* thrown records every exception of the behaviour, with the cycle it was raised in.
Raised ==
    LET new == SelectSeq(NewCalls, LAMBDA c : c.op = "throw")
    IN  thrown' = thrown \o [i \in 1..Len(new) |->
                                [at |-> new[i].arg, by |-> new[i].by, id |-> new[i].id,
                                 cycle |-> cyclesDone]]

Providers == Environment /\ Raised /\ UNCHANGED killed

\* The stores and the call log become those of world w.
Apply(w) ==
    /\ subscriptions' = w.subscriptions
    /\ users' = w.users
    /\ calls' = w.calls
    /\ cycleWrites' = cycleWrites + WriteCount(w.calls) - WriteCount(calls)

\* A routine starts: nothing is written yet.
Begin(name, first) ==
    /\ routine = "idle"
    /\ cyclesDone < MaxCycles
    /\ Order[nextUp] = name
    /\ routine' = name
    /\ calls' = first
    /\ runStart' = Stores
    /\ cycleWrites' = IF nextUp = 1 THEN 0 ELSE cycleWrites
    /\ UNCHANGED <<subscriptions, users, nextUp, cyclesDone>>
    /\ Providers

\* The routine returns to its caller, which awaits the next one.
Return ==
    /\ routine' = "idle"
    /\ phase' = "none"
    /\ nextUp' = IF nextUp = Len(Order) THEN 1 ELSE nextUp + 1
    /\ cyclesDone' = IF nextUp = Len(Order) THEN cyclesDone + 1 ELSE cyclesDone
    /\ UNCHANGED runStart
    /\ Providers

Load(ids) ==
    /\ work' = [s \in SubIds |-> IF s \in ids THEN subscriptions[s] ELSE AbsentSub]
    /\ todo' = ids
    /\ iterated' = <<>>

\* One more subscription of the working set, in the shuffled order.
Iterate(sid, r) ==
    /\ work' = [work EXCEPT ![sid] = r.sub]
    /\ todo' = todo \ {sid}
    /\ iterated' = Append(iterated, sid)
    /\ Apply(r.w)
    /\ UNCHANGED <<routine, phase, proUsers, todoUsers, nextUp, cyclesDone, runStart>>
    /\ Providers

Save(name) ==
    /\ routine = name
    /\ phase = "loop"
    /\ todo = {}
    /\ Apply(SaveSubscriptions(work, iterated, World))
    /\ Return
    /\ UNCHANGED <<work, todo, iterated, proUsers, todoUsers>>

\* checkMissing (subscriptions.ts 341-360)
CheckMissingStart ==
    /\ Begin("checkMissing", <<Call("users.getPro", NoSub, NoSub, "missing")>>)
    /\ phase' = "loop"
    /\ proUsers' = [u \in UserIds |-> IF users[u].isPro THEN UsersGetById(World, u) ELSE NullUser]
    /\ todoUsers' = {u \in UserIds : users[u].isPro}
    /\ UNCHANGED <<work, todo, iterated>>

CheckMissingUser ==
    /\ routine = "checkMissing"
    /\ \E u \in todoUsers :
          /\ Apply(CheckMissingStep(proUsers[u], World))
          /\ todoUsers' = todoUsers \ {u}
    /\ UNCHANGED <<routine, phase, work, todo, iterated, proUsers, nextUp, cyclesDone, runStart>>
    /\ Providers

CheckMissingReturn ==
    /\ routine = "checkMissing"
    /\ todoUsers = {}
    /\ UNCHANGED <<subscriptions, users, calls, cycleWrites, work, todo, iterated,
                   proUsers, todoUsers>>
    /\ Return

\* checkGitHub (subscriptions.ts 366-405)
CheckGitHubStart ==
    /\ Begin("checkGitHub", <<Call("github.getActiveSponsors", NoSub, NoSub, "sponsors"),
                              Call("subscriptions.getAll", "github", NoSub, "sponsors")>>)
    /\ phase' = "loop"
    /\ Load(SubscriptionsGetAll(subscriptions, "github"))
    /\ UNCHANGED <<proUsers, todoUsers>>

CheckGitHubItem ==
    /\ routine = "checkGitHub"
    /\ \E sid \in todo : Iterate(sid, CheckGitHubStep(work[sid], sid, githubLive, World))

CheckGitHubSave == Save("checkGitHub")

\* checkPayPal (subscriptions.ts 410-470)
CheckPayPalStart ==
    /\ Begin("checkPayPal", <<Call("subscriptions.getAll", "paypal", NoSub, "paypal")>>)
    /\ phase' = "loop"
    /\ Load(SubscriptionsGetAll(subscriptions, "paypal"))
    /\ UNCHANGED <<proUsers, todoUsers>>

CheckPayPalItem ==
    /\ routine = "checkPayPal"
    /\ \E sid \in todo : Iterate(sid, CheckPayPalStep(work[sid], sid, paypalLive[sid], World))

CheckPayPalSave == Save("checkPayPal")

\* checkNonActive (subscriptions.ts 305-336)
CheckNonActiveStart ==
    /\ Begin("checkNonActive", <<Call("subscriptions.getDangling", NoSub, NoSub, "dangling")>>)
    /\ phase' = "dangling"
    /\ Load(SubscriptionsGetDangling(subscriptions))
    /\ UNCHANGED <<proUsers, todoUsers>>

CheckNonActiveDangling ==
    /\ routine = "checkNonActive"
    /\ phase = "dangling"
    /\ \E sid \in todo :
          Iterate(sid, [sub |-> work[sid], w |-> DanglingStep(work[sid], sid, World)])

CheckNonActiveLoad ==
    /\ routine = "checkNonActive"
    /\ phase = "dangling"
    /\ todo = {}
    /\ phase' = "loop"
    /\ Load(SubscriptionsGetNonActive(subscriptions))
    /\ calls' = Append(calls, Call("subscriptions.getNonActive", NoSub, NoSub, "nonactive"))
    /\ UNCHANGED <<subscriptions, users, routine, proUsers, todoUsers, nextUp, cyclesDone,
                   cycleWrites, runStart>>
    /\ Providers

CheckNonActiveItem ==
    /\ routine = "checkNonActive"
    /\ phase = "loop"
    /\ \E sid \in todo : Iterate(sid, NonActiveStep(work[sid], sid, World))

CheckNonActiveSave == Save("checkNonActive")

(***************************************************************************)
(* The same routines when a collaborator throws.  An exception inside a    *)
(* loop body is caught by the body's try/catch where there is one (353,    *)
(* 320, 396, 461); any other exception reaches the routine's outer catch   *)
(* (333, 357, 402, 467), which logs it and lets the routine return.        *)
(***************************************************************************)
MaxThrows == 1

MayThrow == Len(thrown) < MaxThrows

\* The caller (index.js 79-81, 99, 115) gets the routine's promise resolved.
Resolved ==
    /\ routine' = "idle"
    /\ phase' = "none"
    /\ nextUp' = IF nextUp = Len(Order) THEN 1 ELSE nextUp + 1
    /\ cyclesDone' = IF nextUp = Len(Order) THEN cyclesDone + 1 ELSE cyclesDone

\* Variant: the exception leaves the routine; monthlyTasks' own catch (82) ends the
\* invocation, the routines after this one are not called.
Rejected ==
    /\ routine' = "idle"
    /\ phase' = "none"
    /\ nextUp' = IF nextUp < 4 THEN 4 ELSE 1
    /\ cyclesDone' = IF nextUp = Len(Order) THEN cyclesDone + 1 ELSE cyclesDone

\* The outer catch of a routine: the exception is logged, the routine returns.
OuterCatch == Resolved

AbortedStart(name, done, at, by) ==
    /\ routine = "idle"
    /\ cyclesDone < MaxCycles
    /\ Order[nextUp] = name
    /\ MayThrow
    /\ calls' = Append(done, Call("throw", NoSub, at, by))
    /\ runStart' = Stores
    /\ cycleWrites' = IF nextUp = 1 THEN 0 ELSE cycleWrites
    /\ OuterCatch
    /\ UNCHANGED <<subscriptions, users, work, todo, iterated, proUsers, todoUsers>>
    /\ Providers

\* Variant: the loop body has no try/catch of its own.
Escapes(sid, r) ==
    /\ MayThrow
    /\ r.thrown
    /\ work' = [work EXCEPT ![sid] = r.sub]
    /\ Apply(r.w)
    /\ OuterCatch
    /\ UNCHANGED <<todo, iterated, runStart, proUsers, todoUsers>>
    /\ Providers

\* An exception caught by the loop body's own try/catch: the loop goes on.
Caught(sid, r) ==
    /\ MayThrow
    /\ r.thrown
    /\ Iterate(sid, r)

\* An exception inside a loop without a try/catch of its own, or inside
\* saveSubscriptions: what is left of the routine is skipped.
Uncaught(w) ==
    /\ MayThrow
    /\ Apply(w)
    /\ OuterCatch
    /\ UNCHANGED <<runStart, proUsers, todoUsers>>
    /\ Providers

SaveThrows(name) ==
    /\ routine = name
    /\ phase = "loop"
    /\ todo = {}
    /\ \E k \in 1..Len(iterated) :
          /\ work[iterated[k]].pendingUpdate
          /\ Uncaught(SaveSubscriptionsThrowing(work, iterated, World, iterated[k]))
    /\ UNCHANGED <<work, todo, iterated>>

CheckMissingStartThrows == AbortedStart("checkMissing", <<>>, "users.getPro", "missing")

CheckMissingUserThrows ==
    /\ routine = "checkMissing"
    /\ MayThrow
    /\ \E u \in todoUsers, at \in MissingFaults :
          LET r == CheckMissingStepThrowing(proUsers[u], World, at)
          IN  /\ r.thrown
              /\ Apply(r.w)
              /\ todoUsers' = todoUsers \ {u}
    /\ UNCHANGED <<routine, phase, work, todo, iterated, proUsers, nextUp, cyclesDone, runStart>>
    /\ Providers

CheckGitHubStartThrows ==
    \/ AbortedStart("checkGitHub", <<>>, "github.getActiveSponsors", "sponsors")
    \/ AbortedStart("checkGitHub", <<Call("github.getActiveSponsors", NoSub, NoSub, "sponsors")>>,
                    "subscriptions.getAll", "sponsors")

CheckGitHubItemThrows ==
    /\ routine = "checkGitHub"
    /\ \E sid \in todo, at \in ItemFaults :
          Caught(sid, CheckGitHubStepThrowing(work[sid], sid, githubLive, World, at))

CheckGitHubSaveThrows == SaveThrows("checkGitHub")

CheckPayPalStartThrows == AbortedStart("checkPayPal", <<>>, "subscriptions.getAll", "paypal")

CheckPayPalItemThrows ==
    /\ routine = "checkPayPal"
    /\ \E sid \in todo, at \in ItemFaults :
          Caught(sid, CheckPayPalStepThrowing(work[sid], sid, paypalLive[sid], World, at))

CheckPayPalSaveThrows == SaveThrows("checkPayPal")

CheckNonActiveStartThrows == AbortedStart("checkNonActive", <<>>, "subscriptions.getDangling", "dangling")

CheckNonActiveDanglingThrows ==
    /\ routine = "checkNonActive"
    /\ phase = "dangling"
    /\ \E sid \in todo, at \in DanglingFaults :
          Caught(sid, DanglingStepThrowing(work[sid], sid, World, at))

\* getNonActive throws (326): nothing is loaded, nothing is saved.
CheckNonActiveLoadThrows ==
    /\ routine = "checkNonActive"
    /\ phase = "dangling"
    /\ todo = {}
    /\ Uncaught(Throw(World, NoSub, "subscriptions.getNonActive", "nonactive"))
    /\ UNCHANGED <<work, todo, iterated>>

\* The second loop of checkNonActive (327-330) has no try/catch of its own.
CheckNonActiveItemThrows ==
    /\ routine = "checkNonActive"
    /\ phase = "loop"
    /\ \E sid \in todo, at \in NonActiveFaults :
          LET r == NonActiveStepThrowing(work[sid], sid, World, at)
          IN  /\ r.thrown
              /\ work' = [work EXCEPT ![sid] = r.sub]
              /\ Uncaught(r.w)
    /\ UNCHANGED <<todo, iterated>>

CheckNonActiveSaveThrows == SaveThrows("checkNonActive")

Next ==
    \/ CheckMissingStart
    \/ CheckMissingUser
    \/ CheckMissingReturn
    \/ CheckGitHubStart
    \/ CheckGitHubItem
    \/ CheckGitHubSave
    \/ CheckPayPalStart
    \/ CheckPayPalItem
    \/ CheckPayPalSave
    \/ CheckNonActiveStart
    \/ CheckNonActiveDangling
    \/ CheckNonActiveLoad
    \/ CheckNonActiveItem
    \/ CheckNonActiveSave

Spec == Init /\ [][Next]_vars

(***************************************************************************)
(* One reconciliation cycle in which collaborators may throw, over stores  *)
(* that hold two subscriptions of one source.                              *)
(***************************************************************************)
PairLive == Live("SUSPENDED", LivePayment(FortyDaysAgo - 1))

PairWorlds ==
    { [subscriptions |-> [s \in SubIds |->
                            IF s = "s1"
                            THEN Sub(o1, src, se1[1], "monthly", OldDate, FreshUpdate, se1[2],
                                     NoPayment, d1)
                            ELSE Sub(o2, src, se2[1], "monthly", OldDate, FreshUpdate, se2[2],
                                     NoPayment, FALSE)],
       users |-> [u \in UserIds |->
                     [isPro |-> IF u = "u1" THEN p1 ELSE p2,
                      subscriptionId |-> IF u = "u1" THEN "s1" ELSE "s2"]],
       paypalLive |-> [s \in SubIds |-> PairLive],
       githubLive |-> IF src = "github" THEN gl ELSE {}] :
        src \in Sources, o1 \in {"u1", GoneUser}, o2 \in {"u2", GoneUser},
        se1 \in StatusExpiry, se2 \in StatusExpiry, d1 \in BOOLEAN,
        p1 \in BOOLEAN, p2 \in BOOLEAN, gl \in {{}, SubIds} }

\* The cycle that starts is the last one of the bound.
LastCycle ==
    /\ nextUp = 1
    /\ cyclesDone = MaxCycles - 1
    /\ beta = FALSE
    /\ embedded = [u \in UserIds |-> NoEmbedded]
    /\ idleUsers = {}
    /\ OnlyReconciliation

InitFaults == (\E i \in PairWorlds : Before(i)) /\ LastCycle

NextFaults ==
    \/ Next
    \/ CheckMissingStartThrows
    \/ CheckMissingUserThrows
    \/ CheckGitHubStartThrows
    \/ CheckGitHubItemThrows
    \/ CheckGitHubSaveThrows
    \/ CheckPayPalStartThrows
    \/ CheckPayPalItemThrows
    \/ CheckPayPalSaveThrows
    \/ CheckNonActiveStartThrows
    \/ CheckNonActiveDanglingThrows
    \/ CheckNonActiveLoadThrows
    \/ CheckNonActiveItemThrows
    \/ CheckNonActiveSaveThrows

SpecFaults == InitFaults /\ [][NextFaults]_vars


(***************************************************************************)
(* users.ts: cleanupIdle (15-32) and cleanupSubscriptions (38-89), called  *)
(* one after the other by the weekend maintenance.                         *)
(***************************************************************************)
UsersOrder == <<"cleanupIdle", "cleanupSubscriptions">>

MaxDateDays == 30

\* core.users.getById once core.users.delete has removed users.
UsersGetByIdLive(w, uid) == IF uid \in removed THEN NullUser ELSE UsersGetById(w, uid)

\* core.users.delete
UsersDelete(w, uid, by) == [w EXCEPT !.calls = Append(@, Call("users.delete", uid, NoSub, by))]

\* Variant: every idle user is deleted.
CleanupIdleDeletesAll(user, betaEnabled) == TRUE

\* cleanupIdle's test (22): a PRO user is kept unless the environment is beta.
CleanupIdleDeletes(user, betaEnabled) == ~(user.isPro /\ ~betaEnabled)

\* One iteration of cleanupSubscriptions' second loop (55-85).
CleanupSubscriptionsStep(sub, sid, live, w) ==
    LET user == UsersGetByIdLive(w, sub.userId)
        emb == IF user.found THEN embedded[user.id] ELSE NoEmbedded
    IN  IF user.found /\ user.isPro
        THEN IF emb.source = "paypal"
             THEN LET w1 == [w EXCEPT !.calls =
                                 Append(@, Call("paypal.getSubscription", sid, NoSub, "cleanup"))]
                  IN  IF live.lastPayment # NoPayment
                         /\ Now - Days(MaxDateDays) > live.lastPayment.date
                      THEN UsersSwitchToFree(w1, user, sid, "cleanup")
                      ELSE w1
             ELSE IF emb.source = "github"
             THEN LET g == IF emb.id \in SubIds THEN w.subscriptions[emb.id] ELSE AbsentSub
                  IN  IF g.exists /\ g.dateExpiry # NoDate /\ Now > g.dateExpiry
                      THEN UsersSwitchToFree(w, user, sid, "cleanup")
                      ELSE w
             ELSE IF emb.source = "trial" /\ emb.dateExpiry # NoDate /\ Now > emb.dateExpiry
             THEN UsersSwitchToFree(w, user, NoSub, "cleanup")
             ELSE w                              \* no user.subscription: TypeError, caught at 82
        ELSE SubscriptionsDelete(w, sid, "cleanup")

BeginUsers(name, first) ==
    /\ routine = "idle"
    /\ cyclesDone < MaxCycles
    /\ UsersOrder[nextUp] = name
    /\ routine' = name
    /\ calls' = first
    /\ runStart' = Stores
    /\ cycleWrites' = 0
    /\ UNCHANGED <<subscriptions, users, nextUp, cyclesDone>>

ReturnUsers ==
    /\ routine' = "idle"
    /\ phase' = "none"
    /\ nextUp' = IF nextUp = Len(UsersOrder) THEN 1 ELSE nextUp + 1
    /\ cyclesDone' = IF nextUp = Len(UsersOrder) THEN cyclesDone + 1 ELSE cyclesDone
    /\ UNCHANGED runStart

Settings ==
    UNCHANGED <<paypalLive, githubLive, start, killed, beta, embedded, idleUsers, upstream,
                sweep, tasks, appState>>

CleanupIdleStart ==
    /\ BeginUsers("cleanupIdle", <<Call("users.getIdle", NoSub, NoSub, "idle")>>)
    /\ phase' = "loop"
    /\ proUsers' = [u \in UserIds |-> IF u \in idleUsers THEN UsersGetById(World, u) ELSE NullUser]
    /\ todoUsers' = idleUsers
    /\ UNCHANGED <<work, todo, iterated, removed>>
    /\ Settings /\ Raised

CleanupIdleUser ==
    /\ routine = "cleanupIdle"
    /\ \E u \in todoUsers :
          /\ IF CleanupIdleDeletes(proUsers[u], beta)
             THEN Apply(UsersDelete(World, u, "idle")) /\ removed' = removed \cup {u}
             ELSE Apply(World) /\ UNCHANGED removed
          /\ todoUsers' = todoUsers \ {u}
    /\ UNCHANGED <<routine, phase, work, todo, iterated, proUsers, nextUp, cyclesDone, runStart>>
    /\ Settings /\ Raised

CleanupIdleReturn ==
    /\ routine = "cleanupIdle"
    /\ todoUsers = {}
    /\ UNCHANGED <<subscriptions, users, calls, cycleWrites, work, todo, iterated,
                   proUsers, todoUsers, removed>>
    /\ ReturnUsers
    /\ Settings /\ Raised

CleanupSubscriptionsStart ==
    /\ BeginUsers("cleanupSubscriptions",
                  <<Call("subscriptions.getDangling", NoSub, NoSub, "cleanup")>>)
    /\ phase' = "dangling"
    /\ Load(SubscriptionsGetDangling(subscriptions))
    /\ UNCHANGED <<proUsers, todoUsers, removed>>
    /\ Settings /\ Raised

IterateUsers(sid, w) ==
    /\ todo' = todo \ {sid}
    /\ iterated' = Append(iterated, sid)
    /\ Apply(w)
    /\ UNCHANGED <<routine, phase, work, proUsers, todoUsers, nextUp, cyclesDone, runStart,
                   removed>>
    /\ Settings /\ Raised

\* The first loop (47-49): each dangling subscription is deleted.
CleanupSubscriptionsDangling ==
    /\ routine = "cleanupSubscriptions"
    /\ phase = "dangling"
    /\ \E sid \in todo : IterateUsers(sid, SubscriptionsDelete(World, sid, "cleanup-dangling"))

CleanupSubscriptionsLoad ==
    /\ routine = "cleanupSubscriptions"
    /\ phase = "dangling"
    /\ todo = {}
    /\ phase' = "loop"
    /\ Load(SubscriptionsGetNonActive(subscriptions))
    /\ calls' = Append(calls, Call("subscriptions.getNonActive", NoSub, NoSub, "cleanup"))
    /\ UNCHANGED <<subscriptions, users, routine, proUsers, todoUsers, nextUp, cyclesDone,
                   cycleWrites, runStart, removed>>
    /\ Settings /\ Raised

CleanupSubscriptionsItem ==
    /\ routine = "cleanupSubscriptions"
    /\ phase = "loop"
    /\ \E sid \in todo :
          IterateUsers(sid, CleanupSubscriptionsStep(work[sid], sid, paypalLive[sid], World))

CleanupSubscriptionsReturn ==
    /\ routine = "cleanupSubscriptions"
    /\ phase = "loop"
    /\ todo = {}
    /\ UNCHANGED <<subscriptions, users, calls, cycleWrites, work, todo, iterated,
                   proUsers, todoUsers, removed>>
    /\ ReturnUsers
    /\ Settings /\ Raised

EmbeddedShapes(u) ==
    IF u = "u1"
    THEN {NoEmbedded, [source |-> "paypal", id |-> "s1", dateExpiry |-> NoDate],
          [source |-> "trial", id |-> NoSub, dateExpiry |-> PastExpiry]}
    ELSE {NoEmbedded, [source |-> "github", id |-> "s2", dateExpiry |-> NoDate],
          [source |-> "trial", id |-> NoSub, dateExpiry |-> Now + 1]}

\* s1 is a billing-provider subscription of u1, s2 a sponsorship or a manual
\* subscription of u2 or of nobody.
CleanupWorlds ==
    { [subscriptions |-> [s \in SubIds |->
                            IF s = "s1"
                            THEN Sub("u1", "paypal", st1, "monthly", OldDate, FreshUpdate, NoDate,
                                     LocalPayment, FALSE)
                            ELSE Sub(o2, src, se2[1], "monthly", OldDate, IdleUpdate, se2[2],
                                     NoPayment, d2)],
       users |-> [u \in UserIds |->
                     [isPro |-> IF u = "u1" THEN p1 ELSE p2,
                      subscriptionId |-> IF u = "u1" THEN "s1" ELSE "s2"]],
       paypalLive |-> [s \in SubIds |-> IF s = "s1" THEN Live(st1, lp) ELSE NoLive],
       githubLive |-> {}] :
        st1 \in {"ACTIVE", "SUSPENDED"}, src \in {"github", "manual"}, o2 \in {"u2", GoneUser},
        se2 \in StatusExpiry, d2 \in BOOLEAN, p1 \in BOOLEAN, p2 \in BOOLEAN,
        lp \in {NoPayment, LivePayment(FortyDaysAgo), LivePayment(Now - Days(MaxDateDays))} }

InitUsers ==
    /\ \E i \in CleanupWorlds : Before(i)
    /\ nextUp = 1
    /\ cyclesDone = MaxCycles - 1
    /\ beta \in BOOLEAN
    /\ embedded \in [UserIds -> UNION {EmbeddedShapes(u) : u \in UserIds}]
    /\ \A u \in UserIds : embedded[u] \in EmbeddedShapes(u)
    /\ idleUsers \in SUBSET UserIds
    /\ OnlyReconciliation

NextUsers ==
    \/ CleanupIdleStart
    \/ CleanupIdleUser
    \/ CleanupIdleReturn
    \/ CleanupSubscriptionsStart
    \/ CleanupSubscriptionsDangling
    \/ CleanupSubscriptionsLoad
    \/ CleanupSubscriptionsItem
    \/ CleanupSubscriptionsReturn

SpecUsers == InitUsers /\ [][NextUsers]_vars

(***************************************************************************)
(* A run that is killed mid-way.  The platform stops the routine at a     *)
(* suspension point: what the routine held in memory is lost, what it had *)
(* written stays, and the same routine is run again by the next           *)
(* invocation, the providers being unchanged.                             *)
(***************************************************************************)
Kill ==
    /\ routine # "idle"
    /\ killed.name = "none"
    /\ killed' = [name |-> routine, stores |-> runStart]
    /\ routine' = "idle"
    /\ phase' = "none"
    /\ calls' = <<>>
    /\ work' = NoWork
    /\ todo' = {}
    /\ todoUsers' = {}
    /\ iterated' = <<>>
    /\ UNCHANGED <<subscriptions, users, nextUp, cyclesDone, cycleWrites, runStart, proUsers>>
    /\ Environment /\ Raised

InitKilled == (\E i \in InitialWorlds : Before(i)) /\ LastCycle

NextKilled == Next \/ Kill

SpecKilled == InitKilled /\ [][NextKilled]_vars

\* The orders in which a shuffled working set can be iterated.
Orders(ids) ==
    {o \in [1..Cardinality(ids) -> ids] : \A i, j \in DOMAIN o : o[i] = o[j] => i = j}

Loaded(store, ids) == [s \in SubIds |-> IF s \in ids THEN store[s] ELSE AbsentSub]

OfWorld(w) == [subscriptions |-> w.subscriptions, users |-> w.users]

RECURSIVE CheckGitHubLoop(_, _, _)
CheckGitHubLoop(order, subs, w) ==
    IF order = <<>> THEN [subs |-> subs, w |-> w]
    ELSE LET r == CheckGitHubStep(subs[Head(order)], Head(order), githubLive, w)
         IN  CheckGitHubLoop(Tail(order), [subs EXCEPT ![Head(order)] = r.sub], r.w)

RECURSIVE CheckPayPalLoop(_, _, _)
CheckPayPalLoop(order, subs, w) ==
    IF order = <<>> THEN [subs |-> subs, w |-> w]
    ELSE LET r == CheckPayPalStep(subs[Head(order)], Head(order), paypalLive[Head(order)], w)
         IN  CheckPayPalLoop(Tail(order), [subs EXCEPT ![Head(order)] = r.sub], r.w)

RECURSIVE DanglingLoop(_, _, _)
DanglingLoop(order, subs, w) ==
    IF order = <<>> THEN w
    ELSE DanglingLoop(Tail(order), subs, DanglingStep(subs[Head(order)], Head(order), w))

RECURSIVE NonActiveLoop(_, _, _)
NonActiveLoop(order, subs, w) ==
    IF order = <<>> THEN [subs |-> subs, w |-> w]
    ELSE LET r == NonActiveStep(subs[Head(order)], Head(order), w)
         IN  NonActiveLoop(Tail(order), [subs EXCEPT ![Head(order)] = r.sub], r.w)

RECURSIVE CheckMissingLoop(_, _, _)
CheckMissingLoop(order, pro, w) ==
    IF order = <<>> THEN w
    ELSE CheckMissingLoop(Tail(order), pro, CheckMissingStep(pro[Head(order)], w))

\* The stores a whole run of the routine can leave, started on the stores st.
Uninterrupted(name, st) ==
    LET w0 == [subscriptions |-> st.subscriptions, users |-> st.users, calls |-> <<>>]
        Saved(o, r) == OfWorld(SaveSubscriptions(r.subs, o, r.w))
    IN  IF name = "checkMissing"
        THEN LET pro == [u \in UserIds |->
                            IF st.users[u].isPro THEN UsersGetById(w0, u) ELSE NullUser]
             IN  {OfWorld(CheckMissingLoop(o, pro, w0)) :
                      o \in Orders({u \in UserIds : st.users[u].isPro})}
        ELSE IF name = "checkGitHub"
        THEN LET ids == SubscriptionsGetAll(st.subscriptions, "github")
             IN  {Saved(o, CheckGitHubLoop(o, Loaded(st.subscriptions, ids), w0)) :
                      o \in Orders(ids)}
        ELSE IF name = "checkPayPal"
        THEN LET ids == SubscriptionsGetAll(st.subscriptions, "paypal")
             IN  {Saved(o, CheckPayPalLoop(o, Loaded(st.subscriptions, ids), w0)) :
                      o \in Orders(ids)}
        ELSE LET gone == SubscriptionsGetDangling(st.subscriptions)
                 After(d) == DanglingLoop(d, Loaded(st.subscriptions, gone), w0)
                 Rest(d) == SubscriptionsGetNonActive(After(d).subscriptions)
             IN  UNION {{Saved(o, NonActiveLoop(o, Loaded(After(d).subscriptions, Rest(d)),
                                                After(d))) : o \in Orders(Rest(d))} :
                            d \in Orders(gone)}

(***************************************************************************)
(* Stores in which both subscriptions belong to the same working sets: u1  *)
(* owns s2, and owns s1 too unless s1's user no longer resolves.           *)
(***************************************************************************)
SharedWorlds ==
    { [subscriptions |-> [s \in SubIds |->
                            IF s = "s1"
                            THEN Sub(IF k1 = "orphan" THEN GoneUser ELSE "u1", src, se1[1],
                                     "monthly", OldDate,
                                     IF k1 = "orphan" THEN IdleUpdate ELSE FreshUpdate, se1[2],
                                     NoPayment, k1 = "dangling")
                            ELSE Sub("u1", src, se2[1], "monthly", OldDate, FreshUpdate, se2[2],
                                     NoPayment, FALSE)],
       users |-> [u \in UserIds |-> IF u = "u1" THEN u1
                                    ELSE [isPro |-> FALSE, subscriptionId |-> NoSub]],
       paypalLive |-> [s \in SubIds |-> IF s = "s1" THEN Live("ACTIVE", LocalPayment)
                                        ELSE PairLive],
       githubLive |-> IF src = "github" THEN gl ELSE {}] :
        src \in Sources, se1 \in StatusExpiry, se2 \in StatusExpiry,
        k1 \in {"owned", "dangling", "orphan"}, u1 \in UserShapes(SubIds), gl \in {{}, {"s1"}, SubIds, NoList} }

InitShared == (\E i \in SharedWorlds : Before(i)) /\ LastCycle

SpecShared == InitShared /\ [][Next]_vars

SpecSharedFaults == InitShared /\ [][NextFaults]_vars

(***************************************************************************)
(* An upstream event during a run.  Subscriptions are created and changed  *)
(* by the providers' checkout, sponsorship and cancellation events outside *)
(* the routines; one such event rewrites the status of a stored            *)
(* subscription while a routine is between its load and its                *)
(* saveSubscriptions.                                                      *)
(***************************************************************************)
UpstreamStatuses == {"ACTIVE", "CANCELLED"}

UpstreamEvent ==
    /\ routine \in {"checkGitHub", "checkPayPal", "checkNonActive"} /\ phase = "loop"
    /\ upstream = NoEvent
    /\ \E sid \in SubIds, st \in UpstreamStatuses :
          /\ subscriptions[sid].exists /\ subscriptions[sid].status # st
          /\ subscriptions' = [subscriptions EXCEPT ![sid].status = st]
          /\ upstream' = [sid |-> sid, status |-> st, name |-> routine]
    /\ UNCHANGED <<users, paypalLive, githubLive, routine, phase, work, todo, proUsers,
                   todoUsers, iterated, calls, nextUp, cyclesDone, cycleWrites, start,
                   runStart, killed, beta, embedded, idleUsers, removed, sweep, tasks,
                   appState, thrown>>

NextUpstream == Next \/ UpstreamEvent

SpecUpstream == InitShared /\ [][NextUpstream]_vars

\* The stores st once the upstream event has been applied to them.
Rewritten(st) ==
    IF st.subscriptions[upstream.sid].exists
    THEN [st EXCEPT !.subscriptions[upstream.sid].status = upstream.status]
    ELSE st

\* The stores the run and the event leave when one wholly precedes the other.
Serial(name, st) ==
    {Rewritten(o) : o \in Uninterrupted(name, st)} \cup Uninterrupted(name, Rewritten(st))

(***************************************************************************)
(* The bounded-parallel batch sweeps: Spotify and Wahoo refreshTokens,     *)
(* calendar regenerate, performanceProcess and updateFitnessLevel.  Each   *)
(* takes batchSize items off the head of its list, starts one worker per   *)
(* item and awaits them together, until the list is empty.  The items of   *)
(* a list are numbered in the order of the list.                           *)
(***************************************************************************)
MaxSweep == 3

MaxBatch == 2

Items == 1..MaxSweep

SweepKinds == {"spotify", "wahoo", "calendar", "performance", "fitness"}

\* The sweeps that await a batch with Promise.allSettled; the others use Promise.all.
AllSettled == {"wahoo", "calendar"}

\* The sweeps whose worker has a try/catch of its own.
Guarded == {"performance", "fitness"}

\* The workers of the token sweeps act only on an expired token.
TokenSweeps == {"spotify", "wahoo"}

\* Variant: the batch takes one item more than batchSize.
SpliceOneMore(list, n) ==
    LET k == IF n + 1 < Len(list) THEN n + 1 ELSE Len(list)
    IN  [taken |-> SubSeq(list, 1, k), left |-> SubSeq(list, k + 1, Len(list))]

\* list.splice(0, n): the items removed from the head, and the list as it is left.
Splice(list, n) ==
    LET k == IF n < Len(list) THEN n ELSE Len(list)
    IN  [taken |-> SubSeq(list, 1, k), left |-> SubSeq(list, k + 1, Len(list))]

Range(list) == {list[i] : i \in 1..Len(list)}

\* The awaited batch promise rejects: Promise.all does on the first rejected worker,
\* Promise.allSettled never does.
BatchRejects(kind, rejected) == kind \notin AllSettled /\ rejected

SweepOnly ==
    UNCHANGED <<subscriptions, users, paypalLive, githubLive, routine, phase, work, todo,
                proUsers, todoUsers, iterated, calls, nextUp, cyclesDone, cycleWrites, start,
                runStart, killed, beta, embedded, idleUsers, removed, upstream, tasks,
                appState, thrown>>

\* while (list.length) await Promise.all(list.splice(0, batchSize).map(worker))
SweepBatch ==
    /\ sweep.pos = "loop" /\ Head(sweep.lists) # <<>>
    /\ LET s == Splice(Head(sweep.lists), sweep.batchSize)
       IN  sweep' = [sweep EXCEPT !.lists = <<s.left>> \o Tail(@),
                                  !.inflight = Range(s.taken),
                                  !.handed = [i \in Items |->
                                                 IF i \in Range(s.taken) THEN @[i] + 1 ELSE @[i]],
                                  !.rejected = FALSE,
                                  !.pos = "await"]
    /\ SweepOnly

\* The list is empty: the loop ends; updateFitnessLevel goes on to its second list.
SweepLoopEnds ==
    /\ sweep.pos = "loop" /\ Head(sweep.lists) = <<>>
    /\ sweep' = IF Len(sweep.lists) > 1
                THEN [sweep EXCEPT !.lists = Tail(@)]
                ELSE [sweep EXCEPT !.pos = "done"]
    /\ SweepOnly

\* A worker runs to its end: it has done its work if the item was due.
WorkerResolves ==
    /\ \E i \in sweep.inflight :
          /\ i \notin sweep.failing
          /\ sweep' = [sweep EXCEPT !.inflight = @ \ {i},
                                     !.processed = IF i \in sweep.due THEN @ \cup {i} ELSE @]
    /\ SweepOnly

\* Every worker of the batch has settled and the batch promise resolves.
SweepResumes ==
    /\ sweep.pos = "await" /\ sweep.inflight = {}
    /\ ~BatchRejects(sweep.kind, sweep.rejected)
    /\ sweep' = [sweep EXCEPT !.pos = "loop"]
    /\ SweepOnly

\* A collaborator throws inside a worker that has a try/catch: logged, the worker resolves.
WorkerCatches ==
    /\ sweep.kind \in Guarded
    /\ \E i \in sweep.inflight \cap sweep.failing :
          sweep' = [sweep EXCEPT !.inflight = @ \ {i}]
    /\ SweepOnly

\* A collaborator throws inside a worker without a try/catch: its promise rejects.
WorkerRejects ==
    /\ sweep.kind \notin Guarded
    /\ \E i \in sweep.inflight \cap sweep.failing :
          sweep' = [sweep EXCEPT !.inflight = @ \ {i},
                                 !.rejected = IF sweep.pos = "await" THEN TRUE ELSE @]
    /\ SweepOnly

\* The batch promise rejects: the exception leaves the loop for the sweep's outer
\* catch, which logs it; the workers still in flight are not awaited any more.
SweepAborts ==
    /\ sweep.pos = "await"
    /\ BatchRejects(sweep.kind, sweep.rejected)
    /\ sweep' = [sweep EXCEPT !.pos = "done", !.aborted = TRUE]
    /\ SweepOnly

\* The lists of a sweep over n items: updateFitnessLevel has two, cut at n1.
SweepLists(kind, n, n1) ==
    IF kind = "fitness"
    THEN <<[i \in 1..n1 |-> i], [i \in 1..(n - n1) |-> n1 + i]>>
    ELSE <<[i \in 1..n |-> i]>>

Sweeps(faulty) ==
    { [kind |-> kind, batchSize |-> b, size |-> n, lists |-> SweepLists(kind, n, n1),
       due |-> due, failing |-> failing, pos |-> "loop", inflight |-> {},
       handed |-> [i \in Items |-> 0], processed |-> {}, rejected |-> FALSE,
       aborted |-> FALSE] :
        kind \in SweepKinds, b \in 1..MaxBatch, n \in 0..MaxSweep, n1 \in 0..MaxSweep,
        due \in SUBSET Items, failing \in SUBSET Items }

SweepInputs(faulty) ==
    {s \in Sweeps(faulty) :
        /\ s.due \subseteq 1..s.size
        /\ s.kind \notin TokenSweeps => s.due = 1..s.size
        /\ s.failing \subseteq s.due
        /\ ~faulty => s.failing = {}
        /\ IF s.kind = "fitness" THEN Len(s.lists[1]) <= s.size ELSE Len(s.lists[1]) = s.size}

\* The reconciliation routines are at rest on an empty store.
AtRest ==
    /\ Before([subscriptions |-> NoWork,
               users |-> [u \in UserIds |-> [isPro |-> FALSE, subscriptionId |-> NoSub]],
               paypalLive |-> [s \in SubIds |-> NoLive], githubLive |-> {}])
    /\ nextUp = 1
    /\ cyclesDone = MaxCycles
    /\ beta = FALSE
    /\ embedded = [u \in UserIds |-> NoEmbedded]
    /\ idleUsers = {}

InitSweep == AtRest /\ sweep \in SweepInputs(FALSE) /\ tasks = NoTasks /\ appState = NoAppState

NextSweep ==
    \/ SweepBatch
    \/ SweepLoopEnds
    \/ WorkerResolves
    \/ SweepResumes

\* Every awaited call is answered and every continuation is run.
SpecSweep == InitSweep /\ [][NextSweep]_vars /\ WF_vars(NextSweep)

InitSweepFaults ==
    AtRest /\ sweep \in SweepInputs(TRUE) /\ tasks = NoTasks /\ appState = NoAppState

NextSweepFaults ==
    \/ NextSweep
    \/ WorkerCatches
    \/ WorkerRejects
    \/ SweepAborts

SpecSweepFaults == InitSweepFaults /\ [][NextSweepFaults]_vars /\ WF_vars(NextSweepFaults)

(***************************************************************************)
(* The scheduled wrappers of index.js.  Each awaits its routines one after *)
(* the other inside one try/catch: a routine that resolves lets the next   *)
(* one be invoked, a routine that rejects ends the invocation.  One        *)
(* collaborator call of one routine may throw.                             *)
(***************************************************************************)
Wrappers ==
    [weekendMaintenance |->
        <<"maps.cleanup", "notifications.cleanup", "strava.cleanupOldActivities",
          "users.cleanupIdle", "users.disableFailingRecipes", "users.updateFitnessLevel",
          "subscriptions.checkNonActive", "spotify.refreshTokens", "wahoo.refreshTokens",
          "updateCounters">>,
     weeklyTasks |->
        <<"users.performanceProcess", "subscriptions.checkNonActive", "updateCounters">>]

\* The collaborator calls of a routine that may throw: its first call and a later one.
FaultPoints == {"first", "later"}

\* The call is made outside the routine's try/catch: cleanupIdle awaits
\* core.users.getIdle before its try (users.ts 18).
OutsideTry(r, point) == r = "users.cleanupIdle" /\ point = "first"

TasksOnly ==
    UNCHANGED <<subscriptions, users, paypalLive, githubLive, routine, phase, work, todo,
                proUsers, todoUsers, iterated, calls, nextUp, cyclesDone, cycleWrites, start,
                runStart, killed, beta, embedded, idleUsers, removed, upstream, sweep,
                appState, thrown>>

Current == Wrappers[tasks.name][tasks.at]

Faulty == tasks.fault.routine = Current

\* The next routine is invoked and resolves.
RoutineResolves ==
    /\ tasks.pos = "running" /\ tasks.at <= Len(Wrappers[tasks.name])
    /\ ~Faulty
    /\ tasks' = [tasks EXCEPT !.invoked = Append(@, Current), !.at = @ + 1]
    /\ TasksOnly

\* The next routine is invoked, a call inside its try/catch throws: it logs and resolves.
RoutineCatches ==
    /\ tasks.pos = "running" /\ tasks.at <= Len(Wrappers[tasks.name])
    /\ Faulty /\ ~OutsideTry(Current, tasks.fault.point)
    /\ tasks' = [tasks EXCEPT !.invoked = Append(@, Current), !.at = @ + 1,
                               !.logged = Append(@, Current)]
    /\ TasksOnly

\* The next routine is invoked, a call outside its try/catch throws: it rejects, and
\* the wrapper's catch (index.js 103, 117) logs and ends the invocation.
RoutineRejects ==
    /\ tasks.pos = "running" /\ tasks.at <= Len(Wrappers[tasks.name])
    /\ Faulty /\ OutsideTry(Current, tasks.fault.point)
    /\ tasks' = [tasks EXCEPT !.invoked = Append(@, Current), !.pos = "caught"]
    /\ TasksOnly

\* Every routine has been awaited: the wrapper returns.
WrapperReturns ==
    /\ tasks.pos = "running" /\ tasks.at > Len(Wrappers[tasks.name])
    /\ tasks' = [tasks EXCEPT !.pos = "returned"]
    /\ TasksOnly

NoFault == [routine |-> "none", point |-> "first"]

Invocations ==
    { [name |-> n, at |-> 1, invoked |-> <<>>, logged |-> <<>>, pos |-> "running",
       fault |-> f] :
        n \in DOMAIN Wrappers,
        f \in {NoFault} \cup [routine : Range(Wrappers.weekendMaintenance)
                                         \cup Range(Wrappers.weeklyTasks),
                              point : FaultPoints] }

InitTasks ==
    /\ AtRest /\ sweep = NoSweep /\ appState = NoAppState
    /\ tasks \in {t \in Invocations :
                      t.fault = NoFault \/ t.fault.routine \in Range(Wrappers[t.name])}

NextTasks ==
    \/ RoutineResolves
    \/ RoutineCatches
    \/ RoutineRejects
    \/ WrapperReturns

SpecTasks == InitTasks /\ [][NextTasks]_vars

(***************************************************************************)
(* strava.ts apiCheckStatus: the incident flag of the application state.   *)
(* core.strava.incident is the incident the application state holds when   *)
(* the run starts; the status feed either fails or answers with a list of  *)
(* incidents.                                                              *)
(***************************************************************************)
MaxChecks == 2

MaxIncidents == 2

NoIncident == "none"

Impacts == {"critical", "Major", "minor"}

\* impact.toLowerCase()
ToLowerCase(s) == IF s = "Major" THEN "major" ELSE s

Severe(i) == ToLowerCase(i.impact) = "critical" \/ ToLowerCase(i.impact) = "major"

IncidentLists ==
    UNION {[1..n -> [impact : Impacts, resolved : BOOLEAN]] : n \in 0..MaxIncidents}

\* The incidents as the feed names them: by their position in the list.
Named(list) ==
    [k \in 1..Len(list) |->
        [impact |-> list[k].impact, resolved |-> list[k].resolved,
         name |-> IF k = 1 THEN "incident1" ELSE IF k = 2 THEN "incident2" ELSE "incident3"]]

Feeds == {[ok |-> FALSE, incidents |-> <<>>]} \cup
         {[ok |-> TRUE, incidents |-> Named(l)] : l \in IncidentLists}

\* _.find(data.incidents, severe): the first severe incident, if there is one.
FindSevere(incidents) ==
    LET at == {k \in 1..Len(incidents) : Severe(incidents[k])}
    IN  IF at = {} THEN [found |-> FALSE]
        ELSE LET k == CHOOSE k \in at : \A j \in at : k <= j
             IN  [found |-> TRUE, resolved |-> incidents[k].resolved,
                  name |-> incidents[k].name]

\* The incident apiCheckStatus ends up with (16-30): the known one, unless the feed
\* answers and its first severe incident is unresolved.
CheckedIncident(known, feed) ==
    LET details == FindSevere(feed.incidents)
    IN  IF feed.ok /\ Len(feed.incidents) > 0 /\ details.found /\ ~details.resolved
        THEN details.name
        ELSE known

StatusOnly ==
    UNCHANGED <<subscriptions, users, paypalLive, githubLive, routine, phase, work, todo,
                proUsers, todoUsers, iterated, calls, nextUp, cyclesDone, cycleWrites, start,
                runStart, killed, beta, embedded, idleUsers, removed, upstream, sweep,
                tasks, thrown>>

\* One run of apiCheckStatus; a falsy incident is stored as FieldValue.delete().
ApiCheckStatus ==
    /\ appState.checks < MaxChecks
    /\ \E feed \in Feeds :
          appState' = [incident |-> CheckedIncident(appState.incident, feed),
                       before |-> appState.incident, feed |-> feed, stored |-> TRUE,
                       checks |-> appState.checks + 1]
    /\ StatusOnly

\* core.database.appState.set throws: the outer catch (40) logs, nothing is stored.
ApiCheckStatusSetThrows ==
    /\ appState.checks < MaxChecks
    /\ \E feed \in Feeds :
          appState' = [appState EXCEPT !.before = appState.incident, !.feed = feed,
                                       !.stored = FALSE, !.checks = @ + 1]
    /\ StatusOnly

InitStatus ==
    /\ AtRest /\ sweep = NoSweep /\ tasks = NoTasks
    /\ appState = [incident |-> NoIncident, before |-> NoIncident,
                    feed |-> [ok |-> FALSE, incidents |-> <<>>], stored |-> FALSE,
                    checks |-> 0]

NextStatus == ApiCheckStatus \/ ApiCheckStatusSetThrows

SpecStatus == InitStatus /\ [][NextStatus]_vars

(***************************************************************************)
(* Vocabulary of the properties.                                           *)
(***************************************************************************)
\* The n-th reconciliation cycle has just completed.
CycleEnd(n) == routine = "idle" /\ cyclesDone = n

\* The routine of the current (or, when idle, the last) run, by the tag of its first call.
RunOf == IF calls = <<>> THEN "none" ELSE calls[1].by

CallsWhere(op, by) == {i \in 1..Len(calls) : calls[i].op = op /\ calls[i].by = by}

Owned(store, u) == {s \in SubIds : store[s].exists /\ store[s].userId = u}

OtherActive(store, u, sid) ==
    \E s \in Owned(store, u) \ {sid} : store[s].status = "ACTIVE"

ExpiryPassed(sub) == sub.dateExpiry # NoDate /\ Now > sub.dateExpiry

\* A subscription of the working set is iterated by this step.
Iterates(sid) == sid \in todo /\ sid \notin todo' /\ phase = "loop"

(***************************************************************************)
(* C1  Idempotence: when the four routines have run to completion twice in *)
(* a row with no external change, the second cycle has performed no write  *)
(* (no subscription update or delete, no user update, no switchToFree).    *)
(***************************************************************************)
C1_SecondCycleWritesNothing == CycleEnd(2) => cycleWrites = 0

(***************************************************************************)
(* C2  Entitlement justification converges: a user who starts PRO without  *)
(* owning an ACTIVE subscription, nor one the provider still vouches for   *)
(* (active or within the grace period at the billing provider, or in the   *)
(* sponsor list), is free after one full cycle.                            *)
(***************************************************************************)
C2_Justified(u) ==
    \E s \in Owned(start.subscriptions, u) :
        LET sub == start.subscriptions[s]
        IN  \/ sub.status = "ACTIVE"
            \/ /\ sub.source = "paypal"
               /\ (paypalLive[s].status = "ACTIVE" \/ Now <= PayPalExpiryDate(sub, paypalLive[s]))
            \/ sub.source = "github" /\ s \in githubLive

C2_UnjustifiedProIsFreed ==
    CycleEnd(1) =>
        \A u \in UserIds : start.users[u].isPro /\ ~C2_Justified(u) => ~users[u].isPro

(***************************************************************************)
(* C3  Expiry closure: a subscription that starts with a non-terminal      *)
(* status and a passed dateExpiry is persisted as EXPIRED after one cycle  *)
(* (unless deleted), and its user, owning no other active subscription, is *)
(* free.                                                                   *)
(***************************************************************************)
C3_ExpiredAfterOnePass ==
    CycleEnd(1) =>
        \A s \in SubIds :
            LET sub == start.subscriptions[s]
            IN  sub.exists /\ sub.status \notin Terminal /\ ExpiryPassed(sub) =>
                    /\ subscriptions[s].exists => subscriptions[s].status = "EXPIRED"
                    /\ sub.userId \in UserIds /\ ~OtherActive(start.subscriptions, sub.userId, s)
                          => ~users[sub.userId].isPro

C5_UpdatesOnlyMarked ==
    \A i \in 1..Len(calls) :
        calls[i].op = "subscriptions.update" =>
            /\ \E k \in 1..Len(iterated) : iterated[k] = calls[i].id
            /\ work[calls[i].id].pendingUpdate
            /\ ~runStart.subscriptions[calls[i].id].pendingUpdate

C5_Updated == \E i \in 1..Len(calls) : calls[i].op = "subscriptions.update"

C7_TerminalNotHealed ==
    [][\A sid \in SubIds :
          /\ subscriptions[sid].exists /\ subscriptions[sid].status \in Terminal
                /\ subscriptions'[sid].exists /\ subscriptions'[sid].status = "ACTIVE"
             => routine = "checkPayPal" /\ paypalLive[sid].status = "ACTIVE"
          /\ Iterates(sid) /\ work[sid].status \in Terminal /\ work'[sid].status = "ACTIVE"
             => routine = "checkPayPal" /\ paypalLive[sid].status = "ACTIVE"]_vars

C7_AdoptedActive ==
    \E sid \in SubIds :
        /\ start.subscriptions[sid].status \in Terminal
        /\ subscriptions[sid].exists
        /\ subscriptions[sid].status = "ACTIVE"

(***************************************************************************)
(* C8  Grace-period threshold in checkPayPal: for a fetched, non-lifetime  *)
(* subscription whose status after adoption is SUSPENDED, CANCELLED or     *)
(* EXPIRED, the grace step switches the user to free exactly when now is   *)
(* after the live last payment + 4 weeks (monthly) or + 11 months (any     *)
(* other frequency); otherwise the grace step never does.  In the example  *)
(* scenario (monthly, ACTIVE, old, live SUSPENDED, last payment 40 days    *)
(* ago on both sides, user PRO, no other active subscription) the          *)
(* subscription is persisted SUSPENDED, was marked pending, keeps its      *)
(* lastPayment, and the user is free.                                      *)
(***************************************************************************)
C8_Fetched(sid) ==
    \E i \in 1..Len(calls) : calls[i].op = "paypal.getSubscription" /\ calls[i].id = sid

C8_Downgraded(sid) ==
    \E i \in CallsWhere("users.switchToFree", "paypal") :
        calls[i].arg = sid /\ calls[i].id = work[sid].userId

C8_Example(sid) ==
    LET sub == runStart.subscriptions[sid]
        live == paypalLive[sid]
    IN  /\ sub.exists /\ sub.source = "paypal" /\ sub.frequency = "monthly"
        /\ sub.status = "ACTIVE" /\ sub.dateExpiry = NoDate
        /\ Now - sub.dateCreated >= Days(28)
        /\ sub.userId \in UserIds /\ runStart.users[sub.userId].isPro
        /\ live.status = "SUSPENDED"
        /\ sub.lastPayment # NoPayment /\ live.lastPayment # NoPayment
        /\ FormatL(sub.lastPayment.date) = FormatL(Now - Days(40))
        /\ FormatL(live.lastPayment.date) = FormatL(Now - Days(40))
        /\ ~OtherActive(runStart.subscriptions, sub.userId, sid)

C8_GraceThreshold ==
    RunOf = "paypal" =>
        \A sid \in SubIds :
            LET sub == work[sid]
                live == paypalLive[sid]
            IN  /\ C8_Fetched(sid) /\ sub.frequency # "lifetime" /\ sub.status \in Terminal
                      /\ live.lastPayment # NoPayment
                   => (C8_Downgraded(sid) <=>
                          IF sub.frequency = "monthly"
                          THEN Now > live.lastPayment.date + Days(28)
                          ELSE Now > AddMonths(live.lastPayment.date, 11))
                /\ sub.frequency = "lifetime" \/ sub.status \notin Terminal
                   => ~C8_Downgraded(sid)
                /\ routine = "idle" /\ C8_Example(sid)
                   => /\ subscriptions[sid].status = "SUSPENDED"
                      /\ sub.pendingUpdate
                      /\ subscriptions[sid].lastPayment = runStart.subscriptions[sid].lastPayment
                      /\ ~users[sub.userId].isPro

C8_ExampleDowngraded ==
    /\ RunOf = "paypal"
    /\ routine = "idle"
    /\ \E sid \in SubIds : C8_Example(sid) /\ C8_Downgraded(sid)

(***************************************************************************)
(* C9  Downgrade suppression in the billing routine: the grace step of     *)
(* checkPayPal does not switch a user to free while the user owns another  *)
(* subscription that was ACTIVE when the run started.                      *)
(***************************************************************************)
C9_NoDowngradeWithOtherActive ==
    \A i \in CallsWhere("users.switchToFree", "paypal") :
        ~OtherActive(runStart.subscriptions, calls[i].id, calls[i].arg)

(***************************************************************************)
(* C10  Sponsorship routine, the "only if" half: checkGitHub's sponsor     *)
(* step expires a subscription and downgrades its user only if the id is   *)
(* absent from the live sponsor list and the user owns no other active     *)
(* subscription.                                                           *)
(***************************************************************************)
C10_SponsorExpiryOnlyIfNoOtherActive ==
    \A i \in CallsWhere("users.switchToFree", "sponsors") :
        /\ calls[i].arg \notin githubLive
        /\ ~OtherActive(runStart.subscriptions, calls[i].id, calls[i].arg)

(***************************************************************************)
(* C11  Orphan safety: when checkNonActive deletes a dangling subscription,*)
(* the only user it may write is the subscription's owner, only when the   *)
(* owner's subscriptionId equals the deleted id at that moment, and the    *)
(* write only clears subscriptionId; a user pointing to another            *)
(* subscription, and an owner that does not resolve, are not written.      *)
(***************************************************************************)
C11_OrphanSafety ==
    [][\A sid \in SubIds :
          routine = "checkNonActive" /\ phase = "dangling" /\ sid \in todo /\ sid \notin todo'
          => \A u \in UserIds :
                users'[u] # users[u]
                => /\ u = work[sid].userId
                   /\ users[u].subscriptionId = sid
                   /\ users'[u] = [users[u] EXCEPT !.subscriptionId = NoSub]]_vars

\* A dangling subscription has been deleted whose owner points to another
\* subscription, and the owner is as it was.
C11_Spared ==
    \E i \in CallsWhere("subscriptions.delete", "dangling") :
        LET owner == runStart.subscriptions[calls[i].id].userId
        IN  /\ owner \in UserIds
            /\ runStart.users[owner].subscriptionId \notin {calls[i].id, NoSub}
            /\ users[owner] = runStart.users[owner]

(***************************************************************************)
(* C12  Recency exclusion.  As claimed: for a billing-provider             *)
(* subscription of any frequency created less than 4 weeks before the run, *)
(* checkPayPal fetches nothing from the provider, and steps 3 to 6 change  *)
(* neither lastPayment, price, currency, status nor the user's entitlement.*)
(***************************************************************************)
C12_Untouched(sid) ==
    LET sub0 == runStart.subscriptions[sid]
    IN  /\ ~C8_Fetched(sid)
        /\ \A i \in CallsWhere("users.switchToFree", "paypal") : calls[i].arg # sid
        /\ work[sid].exists
            => /\ work[sid].lastPayment = sub0.lastPayment
               /\ work[sid].price = sub0.price
               /\ work[sid].currency = sub0.currency
               /\ work[sid].status # sub0.status
                  => /\ work[sid].status = "EXPIRED"
                     /\ sub0.userId \notin UserIds \/ ExpiryPassed(sub0)

C12_Recent(sid) ==
    LET sub0 == runStart.subscriptions[sid]
    IN  /\ RunOf = "paypal"
        /\ sub0.exists /\ sub0.source = "paypal"
        /\ Now - sub0.dateCreated < Days(28)

C12_RecentUntouched == \A sid \in SubIds : C12_Recent(sid) => C12_Untouched(sid)

(***************************************************************************)
(* C12, as amended: the exclusion holds for every billing-provider         *)
(* subscription whose frequency is not lifetime; a lifetime subscription is*)
(* diffed against the provider whatever its age.                           *)
(***************************************************************************)
C12_RecentNonLifetimeUntouched ==
    \A sid \in SubIds :
        C12_Recent(sid) /\ runStart.subscriptions[sid].frequency # "lifetime"
            => C12_Untouched(sid)

\* A recent subscription of an entitled user, whose local data differ from the live
\* data, has been iterated and is as it was.
C12_RecentSkipped ==
    \E sid \in SubIds :
        LET sub0 == runStart.subscriptions[sid]
        IN  /\ C12_Recent(sid) /\ sub0.frequency # "lifetime"
            /\ routine = "idle"
            /\ sub0.userId \in UserIds /\ runStart.users[sub0.userId].isPro
            /\ paypalLive[sid].status # sub0.status
            /\ paypalLive[sid].lastPayment # NoPayment
            /\ sub0.lastPayment = NoPayment
            /\ subscriptions[sid] = sub0

(***************************************************************************)
(* C13  checkMissing safety net: when checkMissing has completed, every    *)
(* user returned by getPro whose subscriptionId is empty or resolves to no *)
(* subscription has been switched to free, and no user whose               *)
(* subscriptionId resolves has been written.                               *)
(***************************************************************************)
C13_Resolves(u) ==
    /\ runStart.users[u].subscriptionId # NoSub
    /\ runStart.subscriptions[runStart.users[u].subscriptionId].exists

Throws(by) == {i \in 1..Len(calls) : calls[i].op = "throw" /\ calls[i].by = by}

\* The run's setup (the calls before the loop) did not throw.
SetupDone ==
    /\ calls # <<>>
    /\ \A i \in 1..Len(calls) :
          calls[i].op = "throw" =>
              calls[i].arg \notin {"users.getPro", "github.getActiveSponsors",
                                  "subscriptions.getAll", "subscriptions.getDangling",
                                  "subscriptions.getNonActive"}

\* Every subscription the run loaded was iterated.
AllIterated(loaded) == todo = {} /\ {iterated[k] : k \in 1..Len(iterated)} = loaded

\* saveSubscriptions went over the working set: each marked subscription is in the
\* store as it is in memory, unless the store refused an update.
Committed(loaded) ==
    Throws("save") = {} =>
        \A s \in loaded :
            work[s].pendingUpdate =>
                /\ \E i \in CallsWhere("subscriptions.update", "save") : calls[i].id = s
                /\ subscriptions[s] = [work[s] EXCEPT !.pendingUpdate = FALSE]

(***************************************************************************)
(* C14  Per-item error isolation in the provider routines: when checkGitHub*)
(* or checkPayPal has returned after loading its working set, every        *)
(* subscription of the set was iterated, whatever exceptions the           *)
(* iterations raised (user lookup, validate, provider fetch, switchToFree),*)
(* and saveSubscriptions went over the whole set.                          *)
(***************************************************************************)
C14_ProviderItemErrorsIsolated ==
    routine = "idle" /\ RunOf \in {"sponsors", "paypal"} /\ SetupDone =>
        LET loaded == SubscriptionsGetAll(runStart.subscriptions,
                                          IF RunOf = "sponsors" THEN "github" ELSE "paypal")
        IN  AllIterated(loaded) /\ Committed(loaded)

\* The first subscription of the run threw, the second was processed after it, and
\* both were saved.
C14_LaterItemProcessed ==
    /\ routine = "idle" /\ RunOf \in {"sponsors", "paypal"}
    /\ Len(iterated) = 2
    /\ \E i \in Throws("validate") \cup Throws(RunOf) :
          /\ calls[i].id = iterated[1]
          /\ \E j \in CallsWhere("users.switchToFree", RunOf) : j > i /\ calls[j].arg = iterated[2]
    /\ \A s \in SubIds : \E i \in CallsWhere("subscriptions.update", "save") : calls[i].id = s

(***************************************************************************)
(* C15  Per-item error isolation in checkNonActive: when checkNonActive    *)
(* has returned after loading the non-active subscriptions, every one of   *)
(* them was validated, whatever exceptions the user lookup or              *)
(* validateSubscription raised, and the pending changes were committed.    *)
(***************************************************************************)
C15_NonActiveItemErrorsIsolated ==
    routine = "idle" /\ RunOf = "dangling" /\ SetupDone =>
        LET loaded == {s \in SubIds : work[s].exists}
        IN  AllIterated(loaded) /\ Committed(loaded)

(***************************************************************************)
(* C16  Phase-level failure containment: a routine that ends, with or      *)
(* without an exception, hands control back to its caller, which awaits    *)
(* the next routine; when the setup of checkMissing (getPro) or of         *)
(* checkGitHub (getActiveSponsors, getAll) has thrown, checkPayPal has     *)
(* still run by the time the monthly routines are over.                    *)
(***************************************************************************)
C16_SetupThrew ==
    \E k \in 1..Len(thrown) :
        /\ thrown[k].cycle = cyclesDone
        /\ thrown[k].at \in {"users.getPro", "github.getActiveSponsors", "subscriptions.getAll"}
        /\ thrown[k].by \in {"missing", "sponsors"}

C16_FailuresContained ==
    /\ [](routine = "idle" /\ nextUp = 4 /\ C16_SetupThrew => RunOf = "paypal")
    /\ [][routine' = "idle" /\ (routine # "idle" \/ calls' # calls)
            => nextUp' = IF nextUp = Len(Order) THEN 1 ELSE nextUp + 1]_vars

\* checkPayPal is running and has loaded its working set, after getActiveSponsors
\* threw in the same cycle.
C16_PayPalRunsAfterFailure ==
    /\ routine = "checkPayPal"
    /\ todo # {}
    /\ \E k \in 1..Len(thrown) :
          thrown[k].cycle = cyclesDone /\ thrown[k].at = "github.getActiveSponsors"


(***************************************************************************)
(* C17: a subscription is deleted only if getDangling returned it, or its *)
(* user does not resolve and its dateUpdated is older than the idle        *)
(* threshold; a subscription that is not dangling and whose user resolves  *)
(* is never deleted, by any routine.                                       *)
(***************************************************************************)
C17_DeletedOnlyWhenDangling ==
    \A i \in 1..Len(calls) :
        calls[i].op = "subscriptions.delete" =>
            LET sub == runStart.subscriptions[calls[i].id]
            IN  \/ sub.dangling
                \/ /\ ~UsersGetByIdLive(runStart, sub.userId).found
                   /\ sub.dateUpdated + Days(IdleDays) < Now

(***************************************************************************)
(* C20: cleanupIdle deletes no idle user that is PRO unless the beta       *)
(* setting is enabled, and once it has returned every idle user that is    *)
(* not PRO has been deleted.                                               *)
(***************************************************************************)
C20_IdleCleanup ==
    RunOf = "idle" =>
        \A u \in UserIds :
            /\ u \in removed => proUsers[u].found /\ (proUsers[u].isPro => beta)
            /\ routine = "idle" /\ proUsers[u].found /\ ~proUsers[u].isPro => u \in removed

C20_ProKeptOthersDeleted ==
    /\ RunOf = "idle"
    /\ routine = "idle"
    /\ ~beta
    /\ \E u \in UserIds : proUsers[u].found /\ proUsers[u].isPro /\ u \notin removed
    /\ \E u \in UserIds : proUsers[u].found /\ ~proUsers[u].isPro /\ u \in removed

(***************************************************************************)
(* C18: when a routine was stopped at a suspension point and the same      *)
(* routine has then run once more to its end, the providers unchanged, the *)
(* stores are those a single uninterrupted run of that routine would have  *)
(* left on the stores the stopped run started from.                        *)
(***************************************************************************)
RerunReturned ==
    /\ killed.name # "none"
    /\ routine = "idle"
    /\ calls # <<>>
    /\ Order[IF nextUp = 1 THEN Len(Order) ELSE nextUp - 1] = killed.name

C18_KilledRunConverges == RerunReturned => Stores \in Uninterrupted(killed.name, killed.stores)

(***************************************************************************)
(* C21: validateSubscription applies at most one rule per call.  In every  *)
(* iteration it makes at most one store call; when it deletes the          *)
(* subscription (user unresolved) or sets the user PRO (drift) the         *)
(* subscription is left as it was, so the expiry rule has not fired in the *)
(* same call; and it never both downgrades and upgrades.                   *)
(***************************************************************************)
ByValidate == SelectSeq(NewCalls, LAMBDA c : c.by = "validate")

C21_AtMostOneRule ==
    [][\A sid \in SubIds :
          Iterates(sid) =>
              /\ Len(ByValidate) <= 1
              /\ \A i \in 1..Len(ByValidate) :
                    ByValidate[i].op \in {"users.update", "subscriptions.delete"}
                        => work'[sid] = work[sid]]_vars

\* The expiry rule has fired on an ACTIVE subscription whose user was free: the
\* subscription is EXPIRED in memory and the user has not been set PRO.
C21_ExpiredNotHealed ==
    /\ routine = "checkGitHub"
    /\ \E k \in 1..Len(iterated) :
          LET sid == iterated[k]
              sub == runStart.subscriptions[sid]
          IN  /\ sub.status = "ACTIVE" /\ ExpiryPassed(sub)
              /\ sub.userId \in UserIds
              /\ ~runStart.users[sub.userId].isPro
              /\ work[sid].status = "EXPIRED" /\ work[sid].pendingUpdate
              /\ ~users[sub.userId].isPro

(***************************************************************************)
(* C22: unresolved-user rule.  When checkGitHub, checkPayPal or            *)
(* checkNonActive has returned, every subscription it iterated whose user  *)
(* does not resolve is: deleted, if its dateUpdated was older than the     *)
(* idle threshold; otherwise persisted EXPIRED with dateExpiry = now, if   *)
(* it was not EXPIRED; otherwise as it was.                                *)
(***************************************************************************)
WasIterated(sid) == \E k \in 1..Len(iterated) : iterated[k] = sid

C22_UnresolvedUserRule ==
    routine = "idle" /\ RunOf \in {"sponsors", "paypal", "dangling"} =>
        \A sid \in SubIds :
            LET sub == runStart.subscriptions[sid]
            IN  WasIterated(sid) /\ sub.userId \notin UserIds =>
                    IF sub.dateUpdated + Days(IdleDays) < Now
                    THEN ~subscriptions[sid].exists
                    ELSE IF sub.status # "EXPIRED"
                    THEN /\ subscriptions[sid] =
                               [sub EXCEPT !.status = "EXPIRED", !.dateExpiry = Now]
                         /\ work[sid].pendingUpdate
                    ELSE subscriptions[sid] = sub /\ ~work[sid].pendingUpdate

\* checkPayPal has returned and has expired and committed a subscription of an
\* unresolved user that was updated exactly at the idle threshold.
C22_OrphanExpired ==
    /\ routine = "idle"
    /\ RunOf = "paypal"
    /\ \E sid \in SubIds :
          LET sub == runStart.subscriptions[sid]
          IN  /\ WasIterated(sid) /\ sub.userId \notin UserIds
              /\ sub.dateUpdated + Days(IdleDays) = Now
              /\ sub.status = "ACTIVE"
              /\ subscriptions[sid].status = "EXPIRED"
              /\ subscriptions[sid].dateExpiry = Now

(***************************************************************************)
(* C23: stale-expiry rule.  When a subscription is validated whose user    *)
(* resolves, whose status is not SUSPENDED, CANCELLED or EXPIRED and whose *)
(* dateExpiry is set and passed, it becomes EXPIRED and is marked pending; *)
(* validate calls switchToFree(user, subscription) if the user is PRO and  *)
(* makes no store call if the user is free, and a free user is not         *)
(* written.  The status validate has set is the one the iteration ends     *)
(* with, except in checkPayPal when the provider is fetched afterwards in  *)
(* the same iteration and its status is adopted.                           *)
(***************************************************************************)
FetchedNow(sid) ==
    \E i \in 1..Len(NewCalls) :
        NewCalls[i].op = "paypal.getSubscription" /\ NewCalls[i].id = sid

C23_StaleExpiryRule ==
    [][\A sid \in SubIds :
          Iterates(sid) /\ work[sid].userId \in UserIds /\ work[sid].status \notin Terminal
              /\ ExpiryPassed(work[sid])
          => /\ \/ work'[sid].status = "EXPIRED"
                \/ /\ routine = "checkPayPal" /\ FetchedNow(sid)
                   /\ work'[sid].status = paypalLive[sid].status
             /\ work'[sid].pendingUpdate
             /\ ByValidate = IF users[work[sid].userId].isPro
                             THEN <<Call("users.switchToFree", work[sid].userId, sid, "validate")>>
                             ELSE <<>>
             /\ ~users[work[sid].userId].isPro => users' = users]_vars

\* A PRO user has been switched to free by the expiry rule.
C23_ExpiredAndDowngraded ==
    \E i \in CallsWhere("users.switchToFree", "validate") :
        LET sid == calls[i].arg
            sub == runStart.subscriptions[sid]
        IN  /\ sub.status \notin Terminal /\ ExpiryPassed(sub)
            /\ runStart.users[sub.userId].isPro
            /\ routine = "checkNonActive"
            /\ work[sid].status = "EXPIRED" /\ work[sid].pendingUpdate
            /\ ~users[sub.userId].isPro

(***************************************************************************)
(* C24: no match is a no-op.  When a subscription is validated whose user  *)
(* resolves and that is neither non-terminal with a passed dateExpiry nor  *)
(* ACTIVE with a free user, validate makes no store call; and unless the   *)
(* provider step of the same iteration acts afterwards, the subscription   *)
(* in memory, pendingUpdate included, and both stores are unchanged.       *)
(***************************************************************************)
ProviderActed == \E i \in 1..Len(NewCalls) : NewCalls[i].by \in {"sponsors", "paypal"}

C24_NoRule(sub, user) ==
    /\ ~(sub.status \notin Terminal /\ ExpiryPassed(sub))
    /\ ~(sub.status = "ACTIVE" /\ ~user.isPro)

C24_NoMatchNoOp ==
    [][\A sid \in SubIds :
          Iterates(sid) /\ work[sid].userId \in UserIds
              /\ C24_NoRule(work[sid], users[work[sid].userId])
          => /\ ByValidate = <<>>
             /\ ~ProviderActed =>
                    work'[sid] = work[sid] /\ subscriptions' = subscriptions /\ users' = users]_vars

\* checkNonActive has validated a SUSPENDED subscription of a PRO user and left
\* everything as it was.
C24_SuspendedLeftAlone ==
    /\ routine = "checkNonActive"
    /\ phase = "loop"
    /\ \E sid \in SubIds :
          /\ WasIterated(sid)
          /\ work[sid].status = "SUSPENDED"
          /\ work[sid].userId \in UserIds
          /\ users[work[sid].userId].isPro
          /\ work[sid] = runStart.subscriptions[sid]
          /\ WriteCount(calls) = 0

(***************************************************************************)
(* C25: when checkNonActive has returned, a user who was PRO at its start  *)
(* and owned an ACTIVE subscription and a stale non-active one (status not *)
(* terminal, dateExpiry passed) is still PRO.                              *)
(***************************************************************************)
C25_ActiveOwnerKeptPro ==
    routine = "idle" /\ RunOf = "dangling" =>
        \A u \in UserIds :
            /\ runStart.users[u].isPro
            /\ \E a \in Owned(runStart.subscriptions, u) :
                  runStart.subscriptions[a].status = "ACTIVE"
            /\ \E s \in Owned(runStart.subscriptions, u) :
                  LET sub == runStart.subscriptions[s]
                  IN  sub.status \notin Terminal \cup {"ACTIVE"} /\ ExpiryPassed(sub)
            => users[u].isPro

(***************************************************************************)
(* C26: status adoption in checkPayPal.  In an iteration that fetches the  *)
(* provider, the local status is the one validate leaves (EXPIRED when its *)
(* expiry rule applies).  Not lifetime: the subscription ends with the     *)
(* live status, and it is marked pending exactly when validate or the      *)
(* payment step marked it or the statuses differed.  Lifetime: the status  *)
(* stays the local one and the grace step does not switch the user to      *)
(* free.                                                                   *)
(***************************************************************************)
LocalStatus(sub) ==
    IF sub.status \notin Terminal /\ ExpiryPassed(sub) THEN "EXPIRED" ELSE sub.status

PaymentDiffers(sub, live) ==
    /\ live.lastPayment # NoPayment
    /\ \/ sub.lastPayment = NoPayment
       \/ sub.lastPayment.date \div TicksPerDay # live.lastPayment.date \div TicksPerDay

C26_StatusAdoption ==
    [][\A sid \in SubIds :
          Iterates(sid) /\ routine = "checkPayPal" /\ FetchedNow(sid) =>
              LET sub == work[sid]
                  live == paypalLive[sid]
              IN  IF sub.frequency # "lifetime"
                  THEN /\ work'[sid].status = live.status
                       /\ work'[sid].pendingUpdate <=>
                              \/ LocalStatus(sub) # sub.status
                              \/ PaymentDiffers(sub, live)
                              \/ LocalStatus(sub) # live.status
                  ELSE /\ work'[sid].status = LocalStatus(sub)
                       /\ \A i \in 1..Len(NewCalls) :
                             ~(NewCalls[i].op = "users.switchToFree" /\ NewCalls[i].by = "paypal")]_vars

\* checkPayPal has adopted the live status ACTIVE for a subscription that was
\* SUSPENDED, and marked it.
C26_AdoptedLiveStatus ==
    /\ routine = "checkPayPal"
    /\ \E sid \in SubIds :
          /\ C8_Fetched(sid)
          /\ runStart.subscriptions[sid].status = "SUSPENDED"
          /\ paypalLive[sid].status = "ACTIVE"
          /\ work[sid].status = "ACTIVE"
          /\ work[sid].pendingUpdate

(***************************************************************************)
(* C27: payment sync in checkPayPal.  In an iteration that fetches the     *)
(* provider: when the live data has a last payment and the local one is    *)
(* missing or falls on another calendar day, lastPayment, price and        *)
(* currency become the live ones and the subscription is marked pending;   *)
(* otherwise the three fields are unchanged and the subscription is marked *)
(* only if validate or the status step marked it.                          *)
(***************************************************************************)
C27_PaymentSync ==
    [][\A sid \in SubIds :
          Iterates(sid) /\ routine = "checkPayPal" /\ FetchedNow(sid) =>
              LET sub == work[sid]
                  live == paypalLive[sid]
              IN  IF PaymentDiffers(sub, live)
                  THEN /\ work'[sid].lastPayment = live.lastPayment
                       /\ work'[sid].price = live.lastPayment.amount
                       /\ work'[sid].currency = live.lastPayment.currency
                       /\ work'[sid].pendingUpdate
                  ELSE /\ work'[sid].lastPayment = sub.lastPayment
                       /\ work'[sid].price = sub.price
                       /\ work'[sid].currency = sub.currency
                       /\ work'[sid].pendingUpdate <=>
                              \/ LocalStatus(sub) # sub.status
                              \/ sub.frequency # "lifetime" /\ LocalStatus(sub) # live.status]_vars

\* A subscription fetched with a live payment of the same day as the local one, at
\* another time and of another amount, has kept its payment, price and currency.
C27_SameDayKept ==
    /\ routine = "checkPayPal"
    /\ \E sid \in SubIds :
          /\ C8_Fetched(sid)
          /\ paypalLive[sid].lastPayment # NoPayment
          /\ runStart.subscriptions[sid].lastPayment # NoPayment
          /\ paypalLive[sid].lastPayment # runStart.subscriptions[sid].lastPayment
          /\ ~PaymentDiffers(runStart.subscriptions[sid], paypalLive[sid])
          /\ work[sid].lastPayment = runStart.subscriptions[sid].lastPayment
          /\ work[sid].price = runStart.subscriptions[sid].price

(***************************************************************************)
(* C28: sequential, once-only processing.  In a run of checkGitHub,        *)
(* checkPayPal or checkNonActive: no subscription is iterated twice; the   *)
(* billing provider is asked at most once per subscription and the sponsor *)
(* list exactly once per checkGitHub run, failed attempts included; a call *)
(* that has thrown is not made again for the same record; and when the run *)
(* has returned after loading its working set, every subscription of the   *)
(* working set has been processed.                                         *)
(***************************************************************************)
Attempts(op, id) ==
    {i \in 1..Len(calls) :
        /\ calls[i].id = id
        /\ calls[i].op = op \/ (calls[i].op = "throw" /\ calls[i].arg = op)}

Attempted(sid) ==
    WasIterated(sid) \/ \E i \in 1..Len(calls) : calls[i].op = "throw" /\ calls[i].id = sid

WorkingSetLoaded ==
    \E i \in 1..Len(calls) :
        calls[i].op = IF RunOf = "dangling" THEN "subscriptions.getNonActive"
                      ELSE "subscriptions.getAll"

C28_NoneTwice ==
    /\ \A i, j \in 1..Len(iterated) : iterated[i] = iterated[j] => i = j
    /\ \A sid \in SubIds : Cardinality(Attempts("paypal.getSubscription", sid)) <= 1
    /\ RunOf = "sponsors" => Cardinality(Attempts("github.getActiveSponsors", NoSub)) = 1
    /\ \A i, j \in 1..Len(calls) :
          calls[i].op = "throw" /\ i < j =>
              ~(calls[j].op = calls[i].arg /\ calls[i].id \in {calls[j].id, calls[j].arg})

C28_OnceAndSequential ==
    RunOf \in {"sponsors", "paypal", "dangling"} =>
        /\ C28_NoneTwice
        /\ routine = "idle" /\ WorkingSetLoaded =>
               \A sid \in SubIds : work[sid].exists => Attempted(sid)

(***************************************************************************)
(* C29: commit completeness under update failure.  When a routine has      *)
(* returned after reaching saveSubscriptions, every subscription it marked *)
(* pending has been updated in the store, except the one whose update      *)
(* threw.                                                                  *)
(***************************************************************************)
UpdateThrew(sid) ==
    \E i \in 1..Len(calls) :
        calls[i].op = "throw" /\ calls[i].arg = "subscriptions.update" /\ calls[i].id = sid

C29_PendingAllPersisted ==
    /\ routine = "idle"
    /\ RunOf \in {"sponsors", "paypal", "dangling"}
    /\ \E i \in 1..Len(calls) : calls[i].by = "save"
    => \A sid \in SubIds :
          WasIterated(sid) /\ work[sid].pendingUpdate /\ ~UpdateThrew(sid)
              => \E i \in 1..Len(calls) :
                    calls[i].op = "subscriptions.update" /\ calls[i].id = sid

(***************************************************************************)
(* C30: at most one downgrade per subscription per run.  In a run of       *)
(* checkGitHub or checkPayPal, switchToFree is called at most once for a   *)
(* given user and subscription.                                            *)
(***************************************************************************)
C30_OneDowngradePerRun ==
    RunOf \in {"sponsors", "paypal"} =>
        \A u \in UserIds, sid \in SubIds :
            Cardinality({i \in 1..Len(calls) :
                            /\ calls[i].op = "users.switchToFree"
                            /\ calls[i].id = u
                            /\ calls[i].arg = sid}) <= 1

(***************************************************************************)
(* C31: order independence under the shuffle.  Whenever checkGitHub,       *)
(* checkPayPal or checkNonActive is about to run, every iteration order of *)
(* its working set leaves the same persisted state: the same status of     *)
(* every subscription, the same isPro and subscriptionId of every user.    *)
(***************************************************************************)
Persisted(st) ==
    [status |-> [s \in SubIds |-> IF st.subscriptions[s].exists
                                  THEN st.subscriptions[s].status ELSE "deleted"],
     users |-> st.users]

C31_OrderIndependent ==
    routine = "idle" /\ cyclesDone < MaxCycles /\ nextUp > 1 =>
        Cardinality({Persisted(st) : st \in Uninterrupted(Order[nextUp], Stores)}) = 1

(***************************************************************************)
(* C32: a failing sponsor feed changes nothing.  When getActiveSponsors    *)
(* throws, that run of checkGitHub ends at once with no subscription       *)
(* write, no subscription delete and no user write; and when it answers    *)
(* without a list, no iteration expires a subscription or downgrades its   *)
(* user for being absent from the list (a status change then comes from    *)
(* validateSubscription alone).                                            *)
(***************************************************************************)
FeedThrew(cs) ==
    \E i \in 1..Len(cs) : cs[i].op = "throw" /\ cs[i].arg = "github.getActiveSponsors"

C32_SponsorFeedFailure ==
    [][/\ FeedThrew(NewCalls) =>
              /\ subscriptions' = subscriptions /\ users' = users
              /\ routine' = "idle" /\ WriteCount(calls') = 0
       /\ \A sid \in SubIds :
              routine = "checkGitHub" /\ Iterates(sid) /\ githubLive = NoList =>
                  /\ \A i \in 1..Len(NewCalls) :
                        NewCalls[i].by = "sponsors" =>
                            /\ NewCalls[i].op \notin WriteOps
                            /\ NewCalls[i].arg # "users.switchToFree"
                  /\ work'[sid].status # work[sid].status =>
                        ExpiryPassed(work[sid]) \/ work[sid].userId \notin UserIds]_vars

\* The feed threw while a PRO user's old subscription was missing from the list.
C32_FeedThrewNothingWritten ==
    /\ routine = "idle" /\ FeedThrew(calls)
    /\ \E sid \in SubIds :
          /\ subscriptions[sid].source = "github" /\ subscriptions[sid].status = "ACTIVE"
          /\ users["u1"].isPro /\ subscriptions[sid].userId = "u1"
          /\ sid \notin githubLive /\ githubLive # NoList

(***************************************************************************)
(* C33: no resurrection.  A subscription deleted during a run (a dangling  *)
(* one by checkNonActive, or one deleted by validateSubscription because   *)
(* its user does not resolve) stays absent from the store for the rest of  *)
(* that run: no later call of the run, saveSubscriptions included, writes  *)
(* it back, although the working set still holds it.                       *)
(***************************************************************************)
DeletedAt(sid) == {i \in 1..Len(calls) : calls[i].op = "subscriptions.delete" /\ calls[i].id = sid}

C33_NoResurrection ==
    \A sid \in SubIds :
        \A i \in DeletedAt(sid) :
            /\ ~subscriptions[sid].exists
            /\ \A j \in (i + 1)..Len(calls) :
                  ~(calls[j].op = "subscriptions.update" /\ calls[j].id = sid)

\* validateSubscription deleted s1, which stayed in the working set, and
\* saveSubscriptions then wrote the other subscription of the set.
C33_DeletedThenSaved ==
    /\ routine = "idle"
    /\ \E i \in DeletedAt("s1") : calls[i].by = "validate"
    /\ WasIterated("s1") /\ work["s1"].exists
    /\ \E j \in 1..Len(calls) : calls[j].op = "subscriptions.update" /\ calls[j].by = "save"

(***************************************************************************)
(* C34: no lost update from the deferred commit.  When an upstream event   *)
(* rewrites a subscription between a routine's load and its                *)
(* saveSubscriptions, the stores the routine leaves are those of a serial  *)
(* execution of the two: the whole run and then the event, or the event    *)
(* and then the whole run.  In particular the copy loaded before the event *)
(* does not overwrite the status the event has persisted.                  *)
(***************************************************************************)
EventRunReturned ==
    /\ upstream # NoEvent /\ routine = "idle" /\ calls # <<>>
    /\ Order[IF nextUp = 1 THEN Len(Order) ELSE nextUp - 1] = upstream.name

C34_Serializable == EventRunReturned => Stores \in Serial(upstream.name, runStart)

(***************************************************************************)
(* C35: the bounded-parallel batch sweeps terminate and respect the bound. *)
(* In Spotify and Wahoo refreshTokens, calendar regenerate,                *)
(* performanceProcess and updateFitnessLevel, for every list and every     *)
(* batchSize of at least one, the loop never has more than batchSize items *)
(* in flight, hands no item to the worker twice, and ends having handed    *)
(* every item to the worker exactly once.                                  *)
(***************************************************************************)
C35_BoundRespected ==
    /\ Cardinality(sweep.inflight) <= sweep.batchSize
    /\ \A i \in Items : sweep.handed[i] <= 1

C35_AllHandedOnce ==
    /\ sweep.pos = "done" /\ sweep.inflight = {}
    /\ \A i \in Items : sweep.handed[i] = IF i <= sweep.size THEN 1 ELSE 0

Ended == sweep.pos = "done" /\ sweep.inflight = {}

C36_OthersRefreshed ==
    sweep.kind \in TokenSweeps /\ Ended =>
        \A i \in sweep.due \ sweep.failing : sweep.handed[i] = 1 /\ i \in sweep.processed

(***************************************************************************)
(* C37: scheduled reconciliation is not starved.  Every invocation of      *)
(* weekendMaintenance and of weeklyTasks that has ended has invoked        *)
(* checkNonActive, whichever call of whichever routine scheduled before it *)
(* has thrown.                                                             *)
(***************************************************************************)
C37_CheckNonActiveInvoked ==
    tasks.pos \in {"returned", "caught"} =>
        \E k \in 1..Len(tasks.invoked) : tasks.invoked[k] = "subscriptions.checkNonActive"

(***************************************************************************)
(* C38: the Strava incident flag clears.  After a run of apiCheckStatus    *)
(* that has stored its result: if the status fetch succeeded and reported  *)
(* no unresolved critical or major incident, no incident is stored, also   *)
(* when an earlier run had stored one; and if the status fetch failed, the *)
(* incident known before the run is stored unchanged.                      *)
(***************************************************************************)
NoneUnresolved(feed) ==
    \A k \in 1..Len(feed.incidents) : Severe(feed.incidents[k]) => feed.incidents[k].resolved

=============================================================================
